---- MODULE Spec2Model ----
(***************************************************************************)
(* State-machine model of the solvent extension of the fully implicit      *)
(* black-oil model (BlackoilSolventModel).  Vectors over cells are         *)
(* sequences 1..nc; saturations are integers in units of 1/One, so that    *)
(* the value 1.0 of the code is the integer One.  Code positions are       *)
(* 0-based, sequences here are 1-based: position k of the code is element  *)
(* k + 1 of the sequence.  Doubles are exact rationals <<n, d>>, except in *)
(* the equation scaling, whose sums round to MantBits significant bits.    *)
(* Spec follows the Newton updates, SpecAssembly the handlers of one       *)
(* assembly, SpecTimeStep the assemblies and updates of one time step,     *)
(* SpecHandlers the same with single handler calls, SpecScaling the        *)
(* equation scaling, SpecRestart the initialisation from a restart file    *)
(* and SpecRun the run loop of the two-phase polymer simulator.            *)
(***************************************************************************)
EXTENDS Integers, Sequences, FiniteSets, TLC

\* ------------------------------------------------------------------ bounds
\* Number of grid cells, number of wells, the integer standing for the
\* saturation 1.0, and the number of Newton updates of one run; the
\* number of significand bits of the floating-point sums and the number
\* of ranks of a distributed run.
nc == 3
nw == 2
One == 2
MaxIter == 2
MantBits == 3
MaxRanks == 2

\* The largest number of steps of a simulation timer.
MaxSteps == 3

\* ------------------------------------------------- canonical enumerations
Water == 0
Oil == 1
Gas == 2
MaxNumPhases == 3

Pressure == 0
Sw == 1
Xvar == 2
Qs == 3
Bhp == 4
Solvent == 5

VARIABLES
    has_solvent,      \* has_solvent_, fixed at construction
    has_vapoil,       \* has_vapoil_, fixed at construction
    is_miscible,      \* is_miscible_, fixed at construction
    phase_used,       \* fluid_.phaseUsage().phase_used, fixed at construction
    reservoir_state,  \* ReservoirState: pressure, saturation, solvent_saturation
    well_state,       \* WellState: bhp, wellRates
    iteration,        \* number of Newton updates applied so far
    mu_eff,           \* mu_eff_: effective viscosities, one entry per material
    b_eff,            \* b_eff_: effective reciprocal formation volume factors
    rq_,              \* rq_: b, accum[0], accum[1] and mflux of every material
    residual_,        \* residual_.material_balance_eq, one entry per equation
    well_perforation_densities_,       \* densities at the perforations
    well_perforation_pressure_diffs_,  \* pressure drops along the wells
    wells_active,     \* wellsActive(): the model was given wells
    sim,              \* the polymer simulator's run: timer, report file, steps
    result            \* what the last call received, forwarded and returned

\* What an assembly stores in the model.
assembled == <<rq_, residual_, well_perforation_densities_, well_perforation_pressure_diffs_>>

vars == <<has_solvent, has_vapoil, is_miscible, phase_used, reservoir_state, well_state,
          iteration, mu_eff, b_eff, assembled, wells_active, sim, result>>

\* ----------------------------------------------------------------- helpers
\* F(v), with v evaluated once.
Bind(v, F(_)) == CHOOSE r \in {F(x) : x \in {v}} : TRUE

Max(a, b) == IF a >= b THEN a ELSE b

\* Element at 0-based position k.
At0(v, k) == v[k + 1]

\* Eigen head(n) / tail(n) of a vector.
VHead(v, n) == SubSeq(v, 1, n)
VTail(v, n) == SubSeq(v, Len(v) - n + 1, Len(v))

\* subset(v, Span(num, 1, start)): num consecutive entries from 0-based start.
SubsetSpan(v, num, start) == [i \in 1..num |-> v[start + i]]

\* fluid_.numPhases()
numPhases(pu) == Cardinality({p \in 0..(MaxNumPhases - 1) : pu[p]})

\* pu.phase_pos[p]: position of an active phase among the active ones.
phase_pos(pu, p) == Cardinality({q \in 0..(MaxNumPhases - 1) : q < p /\ pu[q]})

\* detail::solventPos: counts the used phases.
solventPos(pu) == Cardinality({phase \in 0..(MaxNumPhases - 1) : pu[phase]})

\* Column pos of the row-major saturation array, as a vector over cells.
SatCol(sat, np, pos) == [c \in 1..nc |-> sat[(c - 1) * np + pos + 1]]

\* ------------------------------------------------- base model (black oil)
\* Base::variableStateIndices: 5 entries, -1 for a variable that is absent.
Base_variableStateIndices(pu) ==
    LET iw == IF pu[Water] THEN 1 ELSE -1
        nx0 == IF pu[Water] THEN 2 ELSE 1
        ix == IF pu[Gas] THEN nx0 ELSE -1
        nx1 == IF pu[Gas] THEN nx0 + 1 ELSE nx0
    IN  <<0, iw, ix, nx1, nx1 + 1>>

\* Base::variableStateInitials: pressure, the saturations that are primary
\* variables (water, gas), well rates, bottom-hole pressures.
Base_variableStateInitials(pu, x, xw) ==
    LET np == numPhases(pu)
        w == IF pu[Water] THEN <<SatCol(x.saturation, np, phase_pos(pu, Water))>> ELSE <<>>
        g == IF pu[Gas] THEN <<SatCol(x.saturation, np, phase_pos(pu, Gas))>> ELSE <<>>
    IN  <<x.pressure>> \o w \o g \o <<xw.wellRates, xw.bhp>>

\* Base::variableStateExtractVars: reads the blocks at the given offsets and
\* derives the oil saturation as 1 - sw - sg.
Base_variableStateExtractVars(pu, indices, blocks) ==
    LET np == numPhases(pu)
        zero == [c \in 1..nc |-> 0]
        sw == IF pu[Water] THEN At0(blocks, At0(indices, Sw)) ELSE zero
        sg == IF pu[Gas] THEN At0(blocks, At0(indices, Xvar)) ELSE zero
        so == [c \in 1..nc |-> One - sw[c] - sg[c]]
        byphase == [p \in 0..(MaxNumPhases - 1) |->
                       IF p = Water THEN sw ELSE IF p = Gas THEN sg ELSE so]
        active == [k \in 1..np |->
                      CHOOSE p \in 0..(MaxNumPhases - 1) : pu[p] /\ phase_pos(pu, p) = k - 1]
    IN  [status |-> "ok",
         pressure |-> At0(blocks, At0(indices, Pressure)),
         saturation |-> [k \in 1..np |-> byphase[active[k]]],
         solvent_saturation |-> <<>>,
         solvent_read |-> "none",
         qs |-> At0(blocks, At0(indices, Qs)),
         bhp |-> At0(blocks, At0(indices, Bhp))]

\* Base::updateState: applies the update vector of the black-oil unknowns
\* (pressure, water, gas, well rates, bottom-hole pressures); saturations are
\* clamped at zero and the base closes the oil saturation as 1 - sw - sg.
Base_updateState(pu, dx, x, xw) ==
    LET np == numPhases(pu)
        ind == Base_variableStateIndices(pu)
        zero == [c \in 1..nc |-> 0]
        block(k) == SubsetSpan(dx, nc, k * nc)
        dp == block(At0(ind, Pressure))
        dsw == IF pu[Water] THEN block(At0(ind, Sw)) ELSE zero
        dsg == IF pu[Gas] THEN block(At0(ind, Xvar)) ELSE zero
        dqs == SubsetSpan(dx, np * nw, np * nc)
        dbhp == SubsetSpan(dx, nw, np * nc + np * nw)
        old(c, p) == x.saturation[(c - 1) * np + phase_pos(pu, p) + 1]
        sw(c) == IF pu[Water] THEN Max(old(c, Water) - dsw[c], 0) ELSE 0
        sg(c) == IF pu[Gas] THEN Max(old(c, Gas) - dsg[c], 0) ELSE 0
        newsat == [i \in 1..(nc * np) |->
                      LET c == ((i - 1) \div np) + 1
                          pos == (i - 1) % np
                      IN  IF pu[Water] /\ pos = phase_pos(pu, Water) THEN sw(c)
                          ELSE IF pu[Gas] /\ pos = phase_pos(pu, Gas) THEN sg(c)
                          ELSE One - sw(c) - sg(c)]
    IN  [reservoir |-> [pressure |-> [c \in 1..nc |-> x.pressure[c] - dp[c]],
                        saturation |-> newsat,
                        solvent_saturation |-> x.solvent_saturation],
         well |-> [xw EXCEPT !.bhp = [w \in 1..nw |-> xw.bhp[w] - dbhp[w]],
                             !.wellRates = [i \in 1..(np * nw) |-> xw.wellRates[i] - dqs[i]]]]

\* ------------------------------------------------------------ updateState
\* const V dss = subset(dx, Span(nc, 1, solvent_start));
updateState_dss(pu, dx) == SubsetSpan(dx, nc, nc * numPhases(pu))

\* Mutant: the tail is not moved past the solvent slice.
Mut_modified_dx_keeps_slice(pu, dx) == SubSeq(dx, 1, Len(dx) - nc)

\* modified_dx: dx with the dss part deleted (zero vector, head, tail).
updateState_modified_dx(pu, dx) ==
    LET solvent_start == nc * numPhases(pu)
        len == Len(dx) - nc
        tail_len == Len(dx) - solvent_start - nc
        head == VHead(dx, solvent_start)
        tail == VTail(dx, tail_len)
    IN  [i \in 1..len |->
            IF i > len - tail_len THEN tail[i - (len - tail_len)]
            ELSE IF i <= solvent_start THEN head[i]
            ELSE 0]

\* Mutant: the update is applied without the clamp at zero.
Mut_ss_no_clamp(ss_old, dss) == [c \in 1..nc |-> ss_old[c] - dss[c]]

\* const V ss = (ss_old - dss).max(zero);
updateState_ss(ss_old, dss) == [c \in 1..nc |-> Max(ss_old[c] - dss[c], 0)]

\* Mutant: the oil saturation is left as the base update wrote it.
Mut_oil_from_base(pu, sat, ss) == sat

\* The "adjust oil saturation" loop over the cells.
updateState_oil(pu, sat, ss) ==
    LET np == numPhases(pu)
        oilpos == phase_pos(pu, Oil)
        g(c) == IF pu[Gas] THEN sat[(c - 1) * np + phase_pos(pu, Gas) + 1] ELSE 0
        w(c) == IF pu[Water] THEN sat[(c - 1) * np + phase_pos(pu, Water) + 1] ELSE 0
    IN  [i \in 1..(nc * np) |->
            LET c == ((i - 1) \div np) + 1
            IN  IF (i - 1) % np = oilpos THEN ((One - ss[c]) - g(c)) - w(c) ELSE sat[i]]

\* BlackoilSolventModel::updateState as a function of its arguments: the new
\* reservoir and well state, and what was extracted and forwarded on the way.
updateState(hs, pu, dx, x, xw) ==
    IF hs
    THEN LET dss == updateState_dss(pu, dx)
             mdx == updateState_modified_dx(pu, dx)
             base == Base_updateState(pu, mdx, x, xw)
             ss_old == base.reservoir.solvent_saturation
             ss == updateState_ss(ss_old, dss)
         IN  [reservoir |-> [pressure |-> base.reservoir.pressure,
                             saturation |-> updateState_oil(pu, base.reservoir.saturation, ss),
                             solvent_saturation |-> ss],
              well |-> base.well,
              dss |-> dss,
              base_dx |-> mdx,
              ss_old |-> ss_old,
              base_saturation |-> base.reservoir.saturation]
    ELSE LET base == Base_updateState(pu, dx, x, xw)
         IN  [reservoir |-> base.reservoir,
              well |-> base.well,
              dss |-> <<>>,
              base_dx |-> dx,
              ss_old |-> x.solvent_saturation,
              base_saturation |-> base.reservoir.saturation]

\* ------------------------------------------------- solution state builder
\* vars0.insert(vars0.begin() + pos, block)
InsertAt(v, pos, block) == SubSeq(v, 1, pos) \o <<block>> \o SubSeq(v, pos + 1, Len(v))

\* Mutant: the solvent block is inserted between the two well blocks.
Mut_solvent_pos_in_wells(pu) == numPhases(pu) + 1

\* The position at which variableStateInitials inserts the solvent block.
variableStateInitials_solvent_pos(pu) == numPhases(pu)

\* BlackoilSolventModel::variableStateInitials
variableStateInitials(hs, pu, x, xw) ==
    LET vars0 == Base_variableStateInitials(pu, x, xw)
    IN  IF hs
        THEN InsertAt(vars0, variableStateInitials_solvent_pos(pu), x.solvent_saturation)
        ELSE vars0

\* assert(int(vars0.size()) == fluid_.numPhases() + 2) and
\* assert(solvent_pos == vars0.end() - 2) of variableStateInitials.
variableStateInitials_asserts(hs, pu, x, xw) ==
    LET vars0 == Base_variableStateInitials(pu, x, xw)
    IN  /\ Len(vars0) = numPhases(pu) + 2
        /\ hs => (Len(x.solvent_saturation) > 0 /\ numPhases(pu) = Len(vars0) - 2)

\* The table after ind.resize(6): the new entry is value-initialised.
Resize6(ind) == [k \in 1..6 |-> IF k <= Len(ind) THEN ind[k] ELSE 0]

\* Mutant: the bottom-hole pressure index is not pushed back.
Mut_indices_bhp_not_shifted(hs, pu) ==
    LET ind == Base_variableStateIndices(pu)
    IN  IF hs
        THEN [k \in 1..6 |->
                 IF k = Solvent + 1 THEN numPhases(pu)
                 ELSE IF k = Qs + 1 THEN Resize6(ind)[k] + 1
                 ELSE Resize6(ind)[k]]
        ELSE ind

\* BlackoilSolventModel::variableStateIndices
variableStateIndices(hs, pu) ==
    LET ind == Base_variableStateIndices(pu)
    IN  IF hs
        THEN [k \in 1..6 |->
                 IF k = Solvent + 1 THEN numPhases(pu)
                 ELSE IF k = Qs + 1 \/ k = Bhp + 1 THEN Resize6(ind)[k] + 1
                 ELSE Resize6(ind)[k]]
        ELSE ind

\* assert(ind.size() == 5) of variableStateIndices.
variableStateIndices_assert(pu) == Len(Base_variableStateIndices(pu)) = 5

\* Mutant: the oil saturation is not reduced by the solvent saturation.
Mut_oil_without_solvent(pu, saturation, ss) == saturation

\* state.saturation[pu.phase_pos[Oil]] -= state.solvent_saturation
ExtractVars_oil(pu, saturation, ss) ==
    [k \in 1..Len(saturation) |->
        IF k = phase_pos(pu, Oil) + 1
        THEN [c \in 1..nc |-> saturation[k][c] - ss[c]]
        ELSE saturation[k]]

\* The solvent part of variableStateExtractVars, given the block read as the
\* solvent saturation.
ExtractVars_solvent(pu, state, ss) ==
    [state EXCEPT !.solvent_saturation = ss,
                  !.solvent_read = "in_range",
                  !.saturation = IF pu[Oil] THEN ExtractVars_oil(pu, state.saturation, ss)
                                 ELSE state.saturation]

Crashed == [status |-> "crash", pressure |-> <<>>, saturation |-> <<>>,
            solvent_saturation |-> <<>>, solvent_read |-> "past_end",
            qs |-> <<>>, bhp |-> <<>>]

\* BlackoilSolventModel::variableStateExtractVars: the set of outcomes of a
\* call.  The code checks nothing about indices: with solvent enabled it
\* reads indices[Solvent], which lies past the end of a table of fewer than
\* Solvent + 1 entries.  That read is undefined: the call crashes, or goes on
\* with whatever cell block the stray offset selects.
variableStateExtractVars(hs, pu, indices, blocks) ==
    LET state == Base_variableStateExtractVars(pu, indices, blocks)
    IN  IF ~hs THEN {state}
        ELSE IF Solvent < Len(indices)
        THEN {ExtractVars_solvent(pu, state, At0(blocks, At0(indices, Solvent)))}
        ELSE {Crashed} \cup
             {[ExtractVars_solvent(pu, state, blocks[g]) EXCEPT !.solvent_read = "past_end"] :
                 g \in {h \in 1..Len(blocks) : Len(blocks[h]) = nc}}

\* The expected number of entries of the indices table.
ExpectedIndices(hs) == IF hs THEN 6 ELSE 5

\* Tables handed to variableStateExtractVars: the one variableStateIndices
\* returns, and the 5-entry table of the base model.
IndicesInputs(hs, pu) == {variableStateIndices(hs, pu), Base_variableStateIndices(pu)}

\* ----------------------------------------------------- double arithmetic
\* A double is a pair <<n, d>>: the rational n/d in lowest terms with d > 0,
\* or <<1, 0>>, <<-1, 0>> for the infinities and <<0, 0>> for NaN, so that a
\* division by zero yields what the floating-point division yields.
RECURSIVE GCD(_, _)
GCD(a, b) == IF b = 0 THEN a ELSE GCD(b, a % b)

Abs(a) == IF a < 0 THEN -a ELSE a
Sign(a) == IF a < 0 THEN -1 ELSE IF a > 0 THEN 1 ELSE 0

RNorm(n, d) ==
    IF d = 0 THEN <<Sign(n), 0>>
    ELSE LET g == GCD(Abs(n), Abs(d))
         IN  <<(Sign(d) * n) \div g, Abs(d) \div g>>

RZero == <<0, 1>>
ROne == <<1, 1>>
RNaN == <<0, 0>>

RMul(a, b) == RNorm(a[1] * b[1], a[2] * b[2])
RAdd(a, b) ==
    IF a[2] = 0 /\ b[2] = 0 /\ a[1] = b[1] THEN a
    ELSE RNorm(a[1] * b[2] + b[1] * a[2], a[2] * b[2])
RNeg(a) == <<-a[1], a[2]>>
RSub(a, b) == RAdd(a, RNeg(b))
RDiv(a, b) == RMul(a, IF b = <<0, 1>> THEN <<1, 0>> ELSE <<Sign(b[1]) * b[2], Abs(b[1])>>)
RLeq(a, b) == a[1] * b[2] <= b[1] * a[2]
IsFinite(a) == a[2] # 0

\* The vector with the n entries f[1], ..., f[n], stored entry by entry.
RECURSIVE Eager(_, _)
Eager(f, n) == IF n = 0 THEN <<>> ELSE Append(Eager(f, n - 1), f[n])

\* Cell-wise (Eigen array) arithmetic on vectors of doubles.
VAdd(a, b) == Eager([i \in 1..Len(a) |-> RAdd(a[i], b[i])], Len(a))
VSub(a, b) == Eager([i \in 1..Len(a) |-> RSub(a[i], b[i])], Len(a))
VMul(a, b) == Eager([i \in 1..Len(a) |-> RMul(a[i], b[i])], Len(a))
VDiv(a, b) == Eager([i \in 1..Len(a) |-> RDiv(a[i], b[i])], Len(a))
VConst(n, r) == Eager([i \in 1..n |-> r], n)

\* A saturation vector of the state (units of 1/One) as doubles.
ToDoubles(v) == Eager([i \in 1..Len(v) |-> RNorm(v[i], One)], Len(v))

\* Selector<double>(basis, Zero).select(x1, x2): x1 where the basis is zero,
\* x2 elsewhere.
Selector_select(basis, x1, x2) ==
    Eager([i \in 1..Len(basis) |-> IF basis[i] = RZero THEN x1[i] ELSE x2[i]], Len(basis))

\* subset(x, well_cells): the entries of the perforated cells.
subset(x, cells) == Eager([i \in 1..Len(cells) |-> x[cells[i] + 1]], Len(cells))

\* superset(x, well_cells, n): scatters into a zero vector of n entries,
\* adding up the entries of perforations that share a cell.
RECURSIVE SumWhere(_, _, _, _)
SumWhere(x, cells, c, i) ==
    IF i = 0 THEN RZero
    ELSE RAdd(SumWhere(x, cells, c, i - 1), IF cells[i] = c THEN x[i] ELSE RZero)
superset(x, cells, n) == Eager([c \in 1..n |-> SumWhere(x, cells, c - 1, Len(cells))], n)

\* ------------------------------------------------------------------ wells
\* Wells: two perforations per well, placed round the cells but the last,
\* which no well perforates; wells are producers and injectors in turn.
well_connpos(w) == 2 * w
nperf == well_connpos(nw)
well_cells == [perf \in 1..nperf |-> (perf - 1) % (nc - 1)]
wells_type == [w \in 1..nw |-> IF w % 2 = 1 THEN "PRODUCER" ELSE "INJECTOR"]

\* The well (1-based) of a perforation (0-based).
WellOfPerf(perf) == CHOOSE w \in 1..nw : well_connpos(w - 1) <= perf /\ perf < well_connpos(w)

\* isProducer: 1 on the perforations of producers, 0 elsewhere.
isProducer ==
    Eager([i \in 1..nperf |->
              IF wells_type[WellOfPerf(i - 1)] = "PRODUCER" THEN ROne ELSE RZero], nperf)

\* ------------------------------------------------------- solvent fraction
\* sg: the gas saturation of the solution state, or zero without gas.
State_sg(pu, state) ==
    IF pu[Gas] THEN ToDoubles(state.saturation[phase_pos(pu, Gas) + 1])
    ELSE VConst(nc, RZero)

State_ss(state) == ToDoubles(state.solvent_saturation)

\* Mutant: the quotient is used without the selector.
Mut_F_solvent_unselected(pu, state) ==
    VDiv(State_ss(state), VAdd(State_ss(state), State_sg(pu, state)))

\* computeMassFlux: zero_selector.select(zero, ss / (ss + sg))
F_solvent_computeMassFlux(pu, state) ==
    LET ss == State_ss(state)
        sg == State_sg(pu, state)
    IN  Selector_select(VAdd(ss, sg), VConst(nc, RZero), VDiv(ss, VAdd(ss, sg)))

\* computeRelPerm: zero_selector.select(ss, ss / (ss + sg))
F_solvent_computeRelPerm(pu, state) ==
    LET ss == State_ss(state)
        sg == State_sg(pu, state)
    IN  Selector_select(VAdd(ss, sg), ss, VDiv(ss, VAdd(ss, sg)))

\* addWellContributionToMassBalanceEq:
\* subset(zero_selector.select(ss, ss / (ss + sg)), well_cells)
F_solvent_addWellContribution(pu, state) ==
    LET ss == State_ss(state)
        sg == State_sg(pu, state)
    IN  subset(Selector_select(VAdd(ss, sg), ss, VDiv(ss, VAdd(ss, sg))), well_cells)

\* computeWellConnectionPressures:
\* subset(zero_selector.select(ss, ss / (ss + sg)), well_cells).value()
F_solvent_computeWellConnectionPressures(pu, state) ==
    LET ss == State_ss(state)
        sg == State_sg(pu, state)
    IN  subset(Selector_select(VAdd(ss, sg), ss, VDiv(ss, VAdd(ss, sg))), well_cells)

\* Mutant: a cell without gas and solvent counts as filled with solvent.
Mut_F_solvent_assemble_ones(pu, state) ==
    LET ss == State_ss(state)
        sg == State_sg(pu, state)
    IN  subset(Selector_select(VAdd(ss, sg), VConst(nc, ROne), VDiv(ss, VAdd(ss, sg))),
               well_cells)

\* assemble: subset(zero_selector.select(ss, ss / (ss + sg)), well_cells)
F_solvent_assemble(pu, state) ==
    LET ss == State_ss(state)
        sg == State_sg(pu, state)
    IN  subset(Selector_select(VAdd(ss, sg), ss, VDiv(ss, VAdd(ss, sg))), well_cells)

\* -------------------------------------------------- solvent property tables
\* A relative-permeability multiplier table of the solvent properties:
\* piecewise linear through (0, 0), (1/2, mid) and (1, 1), constant outside.
TableLookup(mid, x) ==
    IF RLeq(x, RZero) THEN RZero
    ELSE IF RLeq(ROne, x) THEN ROne
    ELSE IF RLeq(x, <<1, 2>>) THEN RMul(RMul(<<2, 1>>, x), mid)
    ELSE RAdd(mid, RMul(RSub(RMul(<<2, 1>>, x), ROne), RSub(ROne, mid)))

\* solvent_props_.solventRelPermMultiplier(F, cells_)
solventRelPermMultiplier(F) == Eager([c \in 1..Len(F) |-> TableLookup(<<1, 2>>, F[c])], Len(F))

\* solvent_props_.gasRelPermMultiplier(x, cells_)
gasRelPermMultiplier(x) == Eager([c \in 1..Len(x) |-> TableLookup(<<1, 4>>, x[c])], Len(x))

\* canph_[actph]: the canonical index of the active phase at position actph.
canph(pu, actph) == CHOOSE p \in 0..(MaxNumPhases - 1) : pu[p] /\ phase_pos(pu, p) = actph

\* fluidViscosity(Solvent, ...): the table value, or the stored effective
\* value in miscible mode.
fluidViscosity_Solvent(misc, pu) ==
    IF ~misc THEN <<"muSolvent", "phasePressure">> ELSE <<"mu_eff_", solventPos(pu)>>

\* fluidDensity(Solvent, rq_[solvent_pos_].b, rs, rv)
fluidDensity_Solvent(pu) == <<"solventSurfaceDensity * rq_.b", solventPos(pu)>>

\* ------------------------------------------------------------ computeMassFlux
\* Mutant: the gas multiplier is evaluated at F instead of 1 - F.
Mut_kr_gas_at_F(F, kr) == VMul(gasRelPermMultiplier(F), kr)

\* krs = solventRelPermMultiplier(F_solvent) * kr_mod
computeMassFlux_krs(F, kr) == VMul(solventRelPermMultiplier(F), kr)

\* kr_mod = gasRelPermMultiplier(ones - F_solvent) * kr_mod
computeMassFlux_kr_gas(F, kr) ==
    VMul(gasRelPermMultiplier(VSub(VConst(Len(F), ROne), F)), kr)

\* Mutant: with solvent enabled the solvent flux is computed for every phase
\* and the phase flux uses the reduced relative permeability.
Mut_flux_split_every_phase(hs, misc, pu, actph, kr, state) ==
    LET F == F_solvent_computeMassFlux(pu, state)
        solvent_call == [idx |-> solventPos(pu), kr |-> computeMassFlux_krs(F, kr),
                         mu |-> fluidViscosity_Solvent(misc, pu),
                         rho |-> fluidDensity_Solvent(pu)]
        phase_call == [idx |-> actph, kr |-> IF hs THEN computeMassFlux_kr_gas(F, kr) ELSE kr,
                       mu |-> <<"mu">>, rho |-> <<"rho">>]
    IN  [F_solvent |-> IF hs THEN F ELSE <<>>,
         calls |-> IF hs THEN <<solvent_call, phase_call>> ELSE <<phase_call>>]

\* BlackoilSolventModel::computeMassFlux: the solvent fraction it computes
\* and the calls of Base::computeMassFlux it makes, in order.
computeMassFlux(hs, misc, pu, actph, kr, state) ==
    LET F == F_solvent_computeMassFlux(pu, state)
        gas == hs /\ canph(pu, actph) = Gas
        solvent_call == [idx |-> solventPos(pu), kr |-> computeMassFlux_krs(F, kr),
                         mu |-> fluidViscosity_Solvent(misc, pu),
                         rho |-> fluidDensity_Solvent(pu)]
        kr_mod == IF gas THEN computeMassFlux_kr_gas(F, kr) ELSE kr
        phase_call == [idx |-> actph, kr |-> kr_mod, mu |-> <<"mu">>, rho |-> <<"rho">>]
    IN  [F_solvent |-> IF hs THEN F ELSE <<>>,
         calls |-> IF gas THEN <<solvent_call, phase_call>> ELSE <<phase_call>>]

\* Relative permeabilities handed to computeMassFlux.
KrInputs == { [c \in 1..nc |-> ROne], [c \in 1..nc |-> RNorm(c, c + 2)] }

\* ------------------------------------------------------------ computeRelPerm
\* Saturation of canonical phase p in the solution state, zero if inactive.
State_sat(pu, state, p) ==
    IF pu[p] THEN ToDoubles(state.saturation[phase_pos(pu, p) + 1]) ELSE VConst(nc, RZero)

\* fluid_.relperm(sw, so, sg, cells_): straight-line curves, one entry per
\* canonical phase.
Fluid_relperm(sw, so, sg) == <<sw, so, sg>>

\* Tables of the solvent properties used in miscible mode.
miscibilityFunction(F) == Eager([c \in 1..Len(F) |-> TableLookup(<<1, 2>>, F[c])], Len(F))
miscibleResidualOilSaturationFunction(sw) == VConst(Len(sw), RZero)
miscibleCriticalGasSaturationFunction(sw) == VConst(Len(sw), RZero)
miscibleSolventGasRelPermMultiplier(x) == Eager([c \in 1..Len(x) |-> TableLookup(<<1, 2>>, x[c])], Len(x))
miscibleOilRelPermMultiplier(x) == Eager([c \in 1..Len(x) |-> TableLookup(<<1, 2>>, x[c])], Len(x))
misicibleHydrocarbonWaterRelPerm(sn) == sn
scaledCriticalGasSaturations == VConst(nc, RZero)
scaledCriticalOilinGasSaturations == VConst(nc, RZero)

\* BlackoilSolventModel::computeRelPerm
computeRelPerm(hs, misc, pu, state) ==
    LET sw == State_sat(pu, state, Water)
        so == State_sat(pu, state, Oil)
        sg == State_sat(pu, state, Gas)
        ones == VConst(nc, ROne)
        zero == VConst(nc, RZero)
    IN  IF ~hs
        THEN [status |-> "ok", F_solvent |-> <<>>, relperm |-> Fluid_relperm(sw, so, sg)]
        ELSE LET ss == State_ss(state)
             IN  IF ~misc
                 THEN [status |-> "ok", F_solvent |-> <<>>,
                       relperm |-> Fluid_relperm(sw, so, VAdd(sg, ss))]
                 ELSE IF ~(pu[Oil] /\ pu[Gas])
                 THEN [status |-> "assert", F_solvent |-> F_solvent_computeRelPerm(pu, state),
                       relperm |-> <<>>]
                 ELSE LET relperm == Fluid_relperm(sw, so, VAdd(sg, ss))
                          F == F_solvent_computeRelPerm(pu, state)
                          m == miscibilityFunction(F)
                          sn == VAdd(VAdd(ss, so), sg)
                          sgcr == scaledCriticalGasSaturations
                          sogcr == scaledCriticalOilinGasSaturations
                          sorwmis == miscibleResidualOilSaturationFunction(sw)
                          sgcwmis == miscibleCriticalGasSaturationFunction(sw)
                          sor == VAdd(VMul(m, sorwmis), VMul(VSub(ones, m), sogcr))
                          sgc == VAdd(VMul(m, sgcwmis), VMul(VSub(ones, m), sgcr))
                          ssg == VSub(VAdd(ss, sg), sgc)
                          sn_eff == VSub(VSub(sn, sor), sgc)
                          F_totalGas == Selector_select(sn_eff, zero, VDiv(ssg, sn_eff))
                          mkrgt == VMul(miscibleSolventGasRelPermMultiplier(F_totalGas),
                                        misicibleHydrocarbonWaterRelPerm(sn))
                          mkro == VMul(miscibleOilRelPermMultiplier(VSub(ones, F_totalGas)),
                                       misicibleHydrocarbonWaterRelPerm(sn))
                      IN  [status |-> "ok", F_solvent |-> F,
                           relperm |-> [relperm EXCEPT
                               ![Gas + 1] = VAdd(VMul(VSub(ones, m), relperm[Gas + 1]),
                                                 VMul(m, mkrgt)),
                               ![Oil + 1] = VAdd(VMul(VSub(ones, m), relperm[Oil + 1]),
                                                 VMul(m, mkro))]]

\* ------------------------------------------------ effective properties
\* The largest k with k^4 <= n.
RECURSIVE IRoot4Up(_, _)
IRoot4Up(n, k) == IF (k + 1) * (k + 1) * (k + 1) * (k + 1) > n THEN k ELSE IRoot4Up(n, k + 1)

\* The exact fourth root of a fourth power.
IRoot4(n) == CHOOSE k \in {IRoot4Up(n, 0)} : k * k * k * k = n

\* pow(x, e) for the exponents the mixing model uses: 0, 1/4, 1 and 4.
RPow(x, e) ==
    IF e = RZero THEN ROne
    ELSE IF e = ROne \/ x = RNaN THEN x
    ELSE IF e = <<4, 1>> THEN RMul(RMul(x, x), RMul(x, x))
    ELSE IF x[1] < 0 THEN RNaN
    ELSE IF x[2] = 0 THEN x
    ELSE <<IRoot4(x[1]), IRoot4(x[2])>>

VPow(x, e) == Eager([i \in 1..Len(x) |-> RPow(x[i], e)], Len(x))
VScale(r, x) == Eager([i \in 1..Len(x) |-> RMul(r, x[i])], Len(x))

\* Property evaluations at the cells: viscosities of water, oil, gas and
\* solvent (fourth powers, so that the quarter powers are exact).
MuInputs ==
    { [w |-> <<16, 1>>, o |-> <<81, 1>>, g |-> <<1, 1>>, s |-> <<16, 1>>],
      [w |-> <<16, 1>>, o |-> <<16, 1>>, g |-> <<1, 1>>, s |-> <<1, 1>>],
      [w |-> <<16, 1>>, o |-> <<16, 1>>, g |-> <<16, 1>>, s |-> <<16, 1>>] }

\* Reciprocal formation volume factors and surface densities at the cells,
\* by canonical phase; the solvent values are those used at the perforations.
Fluid_b(p) == VConst(nc, <<p + 2, 1>>)
Fluid_surfaceDensity(p) == VConst(nc, <<2 * p + 13, 1>>)
Solvent_b == VConst(nc, <<5, 1>>)
Solvent_surfaceDensity == VConst(nc, <<11, 1>>)

\* solvent_props_.mixingParamterViscosity(), mixingParamterDensity()
MixingParameters == {RZero, ROne}

\* The quarter-power mixing rule of two components a and b:
\* mu_a * mu_b / pow((s_a / s_ab) * mu_b_pow + (s_b / s_ab) * mu_a_pow, 4.0)
QuarterPowerMix2(mu_a, mu_b, s_a, s_b, s_ab) ==
    VDiv(VMul(mu_a, mu_b),
         VPow(VAdd(VMul(VDiv(s_a, s_ab), VPow(mu_b, <<1, 4>>)),
                   VMul(VDiv(s_b, s_ab), VPow(mu_a, <<1, 4>>))), <<4, 1>>))

\* The three-component rule for oil, solvent and gas.
QuarterPowerMix3(mu_o, mu_s, mu_g, so, ss, sg, sn) ==
    LET mu_s_pow == VPow(mu_s, <<1, 4>>)
        mu_o_pow == VPow(mu_o, <<1, 4>>)
        mu_g_pow == VPow(mu_g, <<1, 4>>)
    IN  VDiv(VMul(VMul(mu_o, mu_s), mu_g),
             VPow(VAdd(VAdd(VMul(VMul(VDiv(so, sn), mu_s_pow), mu_g_pow),
                            VMul(VMul(VDiv(ss, sn), mu_o_pow), mu_g_pow)),
                       VMul(VMul(VDiv(sg, sn), mu_s_pow), mu_o_pow)), <<4, 1>>))

\* Mutant: the mixing formula is used in every cell, with no fallback.
Mut_mu_mos_unselected(mu_o, mu_s, so_eff, ss_eff) ==
    QuarterPowerMix2(mu_o, mu_s, so_eff, ss_eff, VAdd(so_eff, ss_eff))

\* mu_mos = zero_selectorSos.select(mu_o, mu_o * mu_s / pow(..., 4.0))
ToddLongstaff_mu_mos(mu_o, mu_s, so_eff, ss_eff) ==
    LET sos_eff == VAdd(so_eff, ss_eff)
    IN  Selector_select(sos_eff, mu_o, QuarterPowerMix2(mu_o, mu_s, so_eff, ss_eff, sos_eff))

\* mu_msg = zero_selectorSsg.select(mu_g, mu_g * mu_s / pow(..., 4.0))
ToddLongstaff_mu_msg(mu_g, mu_s, sg_eff, ss_eff) ==
    LET ssg_eff == VAdd(ss_eff, sg_eff)
    IN  Selector_select(ssg_eff, mu_g, QuarterPowerMix2(mu_g, mu_s, sg_eff, ss_eff, ssg_eff))

\* mu_m = zero_selectorSn.select(mu_s, mu_o * mu_s * mu_g / pow(..., 4.0))
ToddLongstaff_mu_m(mu_o, mu_s, mu_g, so_eff, ss_eff, sg_eff) ==
    LET sn_eff == VAdd(VAdd(so_eff, sg_eff), ss_eff)
    IN  Selector_select(sn_eff, mu_s,
                        QuarterPowerMix3(mu_o, mu_s, mu_g, so_eff, ss_eff, sg_eff, sn_eff))

\* pow(mu, 1.0 - mix_param) * pow(mu_mixed, mix_param)
ToddLongstaff_effective(mu, mu_mixed, mix_param) ==
    VMul(VPow(mu, RSub(ROne, mix_param)), VPow(mu_mixed, mix_param))

\* ToddLongstaffModel, viscosity part: the quarter powers, the mixed
\* viscosities, and the effective viscosities written to mu_o, mu_g, mu_s.
ToddLongstaffModel_viscosity(mu_o, mu_g, mu_s, so_eff, sg_eff, ss_eff, mix_param_mu) ==
    Bind([mu_s_pow |-> VPow(mu_s, <<1, 4>>),
          mu_o_pow |-> VPow(mu_o, <<1, 4>>),
          mu_g_pow |-> VPow(mu_g, <<1, 4>>),
          mu_mos |-> ToddLongstaff_mu_mos(mu_o, mu_s, so_eff, ss_eff),
          mu_msg |-> ToddLongstaff_mu_msg(mu_g, mu_s, sg_eff, ss_eff),
          mu_m |-> ToddLongstaff_mu_m(mu_o, mu_s, mu_g, so_eff, ss_eff, sg_eff)],
         LAMBDA m :
            [mu_s_pow |-> m.mu_s_pow, mu_o_pow |-> m.mu_o_pow, mu_g_pow |-> m.mu_g_pow,
             mu_mos |-> m.mu_mos, mu_msg |-> m.mu_msg, mu_m |-> m.mu_m,
             mu_o |-> ToddLongstaff_effective(mu_o, m.mu_mos, mix_param_mu),
             mu_g |-> ToddLongstaff_effective(mu_g, m.mu_msg, mix_param_mu),
             mu_s |-> ToddLongstaff_effective(mu_s, m.mu_m, mix_param_mu)])

\* ToddLongstaffModel, density part up to the solvent fractions; v holds
\* the viscosity part, mu_o, mu_g and mu_s being the updated viscosities.
ToddLongstaffModel_sfractions(v, so_eff, sg_eff, mix_param_rho) ==
    Bind([mu_o_eff_pow |-> VPow(ToddLongstaff_effective(v.mu_o, v.mu_mos, mix_param_rho),
                                <<1, 4>>),
          mu_g_eff_pow |-> VPow(ToddLongstaff_effective(v.mu_g, v.mu_msg, mix_param_rho),
                                <<1, 4>>),
          mu_s_eff_pow |-> VPow(ToddLongstaff_effective(v.mu_s, v.mu_m, mix_param_rho),
                                <<1, 4>>),
          sof |-> VDiv(so_eff, VAdd(so_eff, sg_eff)),
          sgf |-> VDiv(sg_eff, VAdd(so_eff, sg_eff))],
         LAMBDA e :
            Bind(VMul(v.mu_s_pow, VAdd(VMul(e.sgf, v.mu_o_pow), VMul(e.sof, v.mu_g_pow))),
                 LAMBDA tmp :
                    [sof |-> e.sof, sgf |-> e.sgf,
                     denominator_oe |-> VMul(e.mu_o_eff_pow, VSub(v.mu_o_pow, v.mu_s_pow)),
                     denominator_ge |-> VMul(e.mu_g_eff_pow, VSub(v.mu_s_pow, v.mu_g_pow)),
                     denominator_se |-> VSub(tmp, VMul(v.mu_o_pow, v.mu_g_pow)),
                     unitGas |-> VSub(v.mu_s, v.mu_g),
                     unitOil |-> VSub(v.mu_s, v.mu_o),
                     sfraction_oe |->
                         VDiv(VMul(v.mu_o_pow, VSub(e.mu_o_eff_pow, v.mu_s_pow)),
                              VMul(e.mu_o_eff_pow, VSub(v.mu_o_pow, v.mu_s_pow))),
                     sfraction_ge |->
                         VDiv(VMul(v.mu_s_pow, VSub(v.mu_g_pow, e.mu_g_eff_pow)),
                              VMul(e.mu_g_eff_pow, VSub(v.mu_s_pow, v.mu_g_pow))),
                     sfraction_se |->
                         VDiv(VSub(tmp, VDiv(VMul(VMul(v.mu_o_pow, v.mu_g_pow), v.mu_s_pow),
                                             e.mu_s_eff_pow)),
                              VSub(tmp, VMul(v.mu_o_pow, v.mu_g_pow)))]))

\* ToddLongstaffModel, the densities written to rho_o, rho_g and rho_s, in
\* that order: rho_s reads the updated rho_g and rho_o.
ToddLongstaffModel_density(f, d_o, d_g, d_s, so_eff, sg_eff, ss_eff, mix_param_rho) ==
    Bind([ones |-> VConst(nc, ROne),
          rho_m |-> LET sn_eff == VAdd(VAdd(so_eff, sg_eff), ss_eff)
                    IN  VAdd(VAdd(VDiv(VMul(d_o, so_eff), sn_eff),
                                  VDiv(VMul(d_g, sg_eff), sn_eff)),
                             VDiv(VMul(d_s, ss_eff), sn_eff))],
         LAMBDA c :
            Bind([rho_o |-> Selector_select(f.unitOil,
                                VAdd(VScale(RSub(ROne, mix_param_rho), d_o),
                                     VScale(mix_param_rho, c.rho_m)),
                                VAdd(VMul(d_o, f.sfraction_oe),
                                     VMul(d_s, VSub(c.ones, f.sfraction_oe)))),
                  rho_g |-> Selector_select(f.unitGas,
                                VAdd(VScale(RSub(ROne, mix_param_rho), d_g),
                                     VScale(mix_param_rho, c.rho_m)),
                                VAdd(VMul(d_g, f.sfraction_ge),
                                     VMul(d_s, VSub(c.ones, f.sfraction_ge)))),
                  blend_s |-> VAdd(VScale(RSub(ROne, mix_param_rho), d_s),
                                   VScale(mix_param_rho, c.rho_m))],
                 LAMBDA r :
                    [rho_o |-> r.rho_o, rho_g |-> r.rho_g,
                     rho_s |-> Selector_select(f.unitGas, r.blend_s,
                                  Selector_select(f.unitOil, r.blend_s,
                                      VAdd(VAdd(VMul(d_s, f.sfraction_se),
                                                VMul(VMul(r.rho_g, f.sgf),
                                                     VSub(c.ones, f.sfraction_se))),
                                           VMul(VMul(r.rho_o, f.sof),
                                                VSub(c.ones, f.sfraction_se)))))]))

\* BlackoilSolventModel::ToddLongstaffModel: the values its own viscosity
\* and density vectors hold when it returns, with the mixed viscosities.
ToddLongstaffModel(viscosity, density, saturations, pu, mix_param_mu, mix_param_rho) ==
    LET o == phase_pos(pu, Oil) + 1
        g == phase_pos(pu, Gas) + 1
        s == solventPos(pu) + 1
    IN  Bind(ToddLongstaffModel_viscosity(viscosity[o], viscosity[g], viscosity[s],
                                          saturations[o], saturations[g], saturations[s],
                                          mix_param_mu),
             LAMBDA v :
                Bind(ToddLongstaffModel_sfractions(v, saturations[o], saturations[g],
                                                   mix_param_rho),
                     LAMBDA f :
                        Bind(ToddLongstaffModel_density(f, density[o], density[g], density[s],
                                                        saturations[o], saturations[g],
                                                        saturations[s], mix_param_rho),
                             LAMBDA rho :
                                [viscosity |-> [viscosity EXCEPT ![o] = v.mu_o, ![g] = v.mu_g,
                                                                 ![s] = v.mu_s],
                                 density |-> [density EXCEPT ![o] = rho.rho_o,
                                                             ![g] = rho.rho_g,
                                                             ![s] = rho.rho_s],
                                 mu_mos |-> v.mu_mos, mu_msg |-> v.mu_msg, mu_m |-> v.mu_m])))

\* The vector with entry k + 1 = f[k] for the 0-based positions k of the
\* np + 1 materials.
ByPosition(pu, water, oil, gas, solvent) ==
    Eager([k \in 1..(numPhases(pu) + 1) |->
              IF k = solventPos(pu) + 1 THEN solvent
              ELSE IF pu[Water] /\ k = phase_pos(pu, Water) + 1 THEN water
              ELSE IF k = phase_pos(pu, Oil) + 1 THEN oil
              ELSE gas], numPhases(pu) + 1)

\* The caller's vectors after ToddLongstaffModel(viscosity, density, ...)
\* returns: the parameters are declared std::vector<ADB>, passed by value,
\* so the callee works on copies.
AfterToddLongstaffCall(viscosity, density, callee) ==
    [viscosity |-> viscosity, density |-> density]

\* calculateEffectiveProperties up to its call of ToddLongstaffModel: the
\* viscosity, density and effective saturation vectors it builds.
calculateEffectiveProperties_vectors(pu, state, mu) ==
    LET sw == State_sat(pu, state, Water)
        sorwmis == miscibleResidualOilSaturationFunction(sw)
        sgcwmis == miscibleCriticalGasSaturationFunction(sw)
    IN  [mu_w |-> VConst(nc, mu.w),
         bw |-> Fluid_b(Water),
         viscosity |-> ByPosition(pu, VConst(nc, mu.w), VConst(nc, mu.o), VConst(nc, mu.g),
                                  VConst(nc, mu.s)),
         density |-> ByPosition(pu, VMul(Fluid_b(Water), Fluid_surfaceDensity(Water)),
                                VMul(Fluid_b(Oil), Fluid_surfaceDensity(Oil)),
                                VMul(Fluid_b(Gas), Fluid_surfaceDensity(Gas)),
                                VMul(Solvent_b, Solvent_surfaceDensity)),
         effective_saturations |->
             ByPosition(pu, sw, VSub(State_sat(pu, state, Oil), sorwmis),
                        VSub(State_sat(pu, state, Gas), sgcwmis),
                        VSub(State_ss(state), sgcwmis))]

\* calculateEffectiveProperties after the call: the b_eff_ and mu_eff_ it
\* stores, read from its own density and viscosity vectors.
calculateEffectiveProperties_stored(pu, v, callee) ==
    LET after == AfterToddLongstaffCall(v.viscosity, v.density, callee)
    IN  [b_eff |-> ByPosition(pu, v.bw,
                      VDiv(after.density[phase_pos(pu, Oil) + 1], Fluid_surfaceDensity(Oil)),
                      VDiv(after.density[phase_pos(pu, Gas) + 1], Fluid_surfaceDensity(Gas)),
                      VDiv(after.density[solventPos(pu) + 1], Solvent_surfaceDensity)),
         mu_eff |-> ByPosition(pu, v.mu_w,
                      after.viscosity[phase_pos(pu, Oil) + 1],
                      after.viscosity[phase_pos(pu, Gas) + 1],
                      after.viscosity[solventPos(pu) + 1])]

\* BlackoilSolventModel::calculateEffectiveProperties: the b_eff_ and
\* mu_eff_ it stores.
calculateEffectiveProperties(pu, state, mu, mix_param_mu, mix_param_rho) ==
    Bind(calculateEffectiveProperties_vectors(pu, state, mu),
         LAMBDA v :
            calculateEffectiveProperties_stored(pu, v,
                ToddLongstaffModel(v.viscosity, v.density, v.effective_saturations, pu,
                                   mix_param_mu, mix_param_rho)))

\* Phase indices handed to the property lookups: the canonical phases, the
\* solvent, and indices that name no phase.
PhaseIndexInputs == {-1, Water, Oil, Gas, MaxNumPhases, Bhp, Solvent, Solvent + 1}

Thrown(what) == [status |-> "throw", what |-> what]
Returned(value) == [status |-> "ok", value |-> value]

\* The value of a property table of the fluid or of the solvent.
TableValue(name, p) == <<name, p>>

\* Mutant: the viscosity is read from the property tables in both modes.
Mut_viscosity_always_from_tables(misc, pu, mu_eff_, phase) ==
    CASE phase = Water -> Returned(TableValue("muWat", Water))
      [] phase = Oil -> Returned(TableValue("muOil", Oil))
      [] phase = Gas -> Returned(TableValue("muGas", Gas))
      [] phase = Solvent -> Returned(TableValue("muSolvent", Solvent))
      [] OTHER -> Thrown("Unknown phase index")

\* BlackoilSolventModel::fluidViscosity
fluidViscosity(misc, pu, mu_eff_, phase) ==
    IF ~misc
    THEN CASE phase = Water -> Returned(TableValue("muWat", Water))
           [] phase = Oil -> Returned(TableValue("muOil", Oil))
           [] phase = Gas -> Returned(TableValue("muGas", Gas))
           [] phase = Solvent -> Returned(TableValue("muSolvent", Solvent))
           [] OTHER -> Thrown("Unknown phase index")
    ELSE CASE phase \in {Water, Oil, Gas} -> Returned(mu_eff_[phase_pos(pu, phase) + 1])
           [] phase = Solvent -> Returned(mu_eff_[solventPos(pu) + 1])
           [] OTHER -> Thrown("Unknown phase index")

\* BlackoilSolventModel::fluidReciprocFVF
fluidReciprocFVF(misc, pu, b_eff_, phase) ==
    IF ~misc
    THEN CASE phase = Water -> Returned(TableValue("bWat", Water))
           [] phase = Oil -> Returned(TableValue("bOil", Oil))
           [] phase = Gas -> Returned(TableValue("bGas", Gas))
           [] phase = Solvent -> Returned(TableValue("bSolvent", Solvent))
           [] OTHER -> Thrown("Unknown phase index")
    ELSE CASE phase \in {Water, Oil, Gas} -> Returned(b_eff_[phase_pos(pu, phase) + 1])
           [] phase = Solvent -> Returned(b_eff_[solventPos(pu) + 1])
           [] OTHER -> Thrown("Unknown phase index")

\* The outcomes of fluid_.surfaceDensity(phase, cells_): the table entry of
\* an active phase position; an index past the table is an out-of-range
\* read, which yields whatever the memory holds or a memory fault.
Fluid_surfaceDensity_outcomes(pu, phase) ==
    IF phase \in 0..(numPhases(pu) - 1)
    THEN {Returned(TableValue("surfaceDensity", phase))}
    ELSE {Returned(TableValue("stray", phase)), [status |-> "fault"]}

\* BlackoilSolventModel::fluidDensity: the set of its outcomes. It has no
\* switch over the phase and no throw of its own.
fluidDensity(hs, pu, phase) ==
    IF phase = Solvent /\ hs
    THEN {Returned([rhos |-> TableValue("solventSurfaceDensity", Solvent),
                    b |-> "rq_[solvent_pos_].b", plus |-> "none"])}
    ELSE {IF rhos.status = "ok"
          THEN Returned([rhos |-> rhos.value, b |-> "b",
                         plus |-> IF phase = Oil /\ pu[Gas] THEN "rs"
                                  ELSE IF phase = Gas /\ pu[Oil] THEN "rv"
                                  ELSE "none"])
          ELSE rhos : rhos \in Fluid_surfaceDensity_outcomes(pu, phase)}

\* ------------------------------------------------------------- well coupling
\* Property evaluations at the perforations: reciprocal formation volume
\* factors and surface densities of gas and solvent.
Fluid_bGas == VConst(nperf, <<3, 1>>)
Solvent_bSolvent == VConst(nperf, <<5, 1>>)
Fluid_surfaceDensityGas == VConst(nperf, <<7, 1>>)
Solvent_solventSurfaceDensity == VConst(nperf, <<11, 1>>)

\* Mutant: the pressure above is the previous perforation's, across well
\* boundaries.
Mut_avg_press_across_wells(bhp, perf_press) ==
    Eager([i \in 1..nperf |->
              LET p_above == IF i = 1 THEN bhp[1] ELSE perf_press[i - 1]
              IN  RNorm(perf_press[i] + p_above, 2)], nperf)

\* The average pressure of each perforation: the mean of its pressure and
\* of the pressure above it, the bottom-hole pressure for the first
\* perforation of a well.
avg_press(bhp, perf_press) ==
    Eager([i \in 1..nperf |->
              LET perf == i - 1
                  w == WellOfPerf(perf)
                  p_above == IF perf = well_connpos(w - 1) THEN bhp[w]
                             ELSE perf_press[perf - 1 + 1]
              IN  RNorm(perf_press[i] + p_above, 2)], nperf)

\* F_solvent = isProducer * F_solvent + (ones - isProducer) * injectedSolventFraction
PerfSolventFraction(F, injectedSolventFraction) ==
    VAdd(VMul(isProducer, F), VMul(VSub(VConst(nperf, ROne), isProducer), injectedSolventFraction))

\* BlackoilSolventModel::computeWellConnectionPressures: the averaged
\* pressures and the gas column of the inputs of the density computation.
computeWellConnectionPressures(hs, pu, state, xw) ==
    LET ones == VConst(nperf, ROne)
        Fcell == F_solvent_computeWellConnectionPressures(pu, state)
        F == PerfSolventFraction(Fcell, xw.solventFraction)
        blend == hs /\ pu[Gas]
        bg == IF blend THEN VAdd(VMul(Fluid_bGas, VSub(ones, F)), VMul(F, Solvent_bSolvent))
              ELSE Fluid_bGas
        rhog == IF blend
                THEN VAdd(VMul(VSub(ones, F), Fluid_surfaceDensityGas),
                          VMul(F, Solvent_solventSurfaceDensity))
                ELSE Fluid_surfaceDensityGas
    IN  [avg_press |-> avg_press(state.bhp, xw.perfPress),
         F_cell |-> IF blend THEN Fcell ELSE <<>>,
         F_solvent |-> IF blend THEN F ELSE <<>>,
         bg |-> IF pu[Gas] THEN bg ELSE <<>>,
         rhog |-> IF pu[Gas] THEN rhog ELSE <<>>]

\* state.rs at the cells.
State_rs == [c \in 1..nc |-> <<c, 2>>]

\* Base::addWellContributionToMassBalanceEq: every phase equation loses the
\* perforation flux of its phase at the perforated cells.
Base_addWellContribution(residual, cq_s, np) ==
    Eager([k \in 1..Len(residual) |->
              IF k <= np THEN VSub(residual[k], superset(cq_s[k], well_cells, nc))
              ELSE residual[k]], Len(residual))

\* Mutant: the cell solvent fraction at every perforation, injectors
\* included.
Mut_cq_s_solvent_cell_fraction(pu, cq_s, state, xw) ==
    VMul(F_solvent_addWellContribution(pu, state),
         VSub(cq_s[phase_pos(pu, Gas) + 1],
              VMul(subset(State_rs, well_cells), cq_s[phase_pos(pu, Oil) + 1])))

\* cq_s_solvent = (isProducer * F_solvent + (ones - isProducer) *
\*                 injectedSolventFraction) * (cq_s[gas_pos] - rs_perfcells * cq_s[oil_pos])
cq_s_solvent(pu, cq_s, state, xw) ==
    VMul(PerfSolventFraction(F_solvent_addWellContribution(pu, state), xw.solventFraction),
         VSub(cq_s[phase_pos(pu, Gas) + 1],
              VMul(subset(State_rs, well_cells), cq_s[phase_pos(pu, Oil) + 1])))

\* BlackoilSolventModel::addWellContributionToMassBalanceEq: the residual
\* after the call.
addWellContributionToMassBalanceEq(hs, pu, residual, cq_s, state, xw) ==
    LET np == numPhases(pu)
        base == Base_addWellContribution(residual, cq_s, np)
    IN  IF ~hs THEN base
        ELSE LET q == superset(cq_s_solvent(pu, cq_s, state, xw), well_cells, nc)
             IN  [base EXCEPT ![solventPos(pu) + 1] = VSub(base[solventPos(pu) + 1], q),
                              ![phase_pos(pu, Gas) + 1] = VAdd(base[phase_pos(pu, Gas) + 1], q)]

\* Perforation fluxes handed to addWellContributionToMassBalanceEq, one
\* vector per phase: an inflow and an outflow pattern.
CqsInputs(np) ==
    { [k \in 1..np |-> [i \in 1..nperf |-> <<k + i, 1>>]],
      [k \in 1..np |-> [i \in 1..nperf |-> <<-(2 * k + i), 3>>]] }

\* The residual before the well contribution is added.
Residual0(hs, np) ==
    [k \in 1..(IF hs THEN np + 1 ELSE np) |-> [c \in 1..nc |-> <<10 * k + c, 1>>]]

\* rq_[phase].b at the cells, as left by the accumulation terms.
Rq_b(k) == [c \in 1..nc |-> <<k + 1, 1>>]

\* The blended gas entry of b_perfcells built by assemble:
\* (ones - F_solvent) * b_perfcells[gas_pos] + F_solvent * subset(rq_[solvent_pos_].b)
assemble_b_perfcells_gas(pu, state) ==
    LET F == F_solvent_assemble(pu, state)
        ones == VConst(nperf, ROne)
    IN  VAdd(VMul(VSub(ones, F), subset(Rq_b(phase_pos(pu, Gas)), well_cells)),
             VMul(F, subset(Rq_b(solventPos(pu)), well_cells)))

\* ------------------------------------------------------------- accumulation
\* rock_comp_props_->poroMult(p): the pore-volume multiplier of the cells.
poroMult(press) == Eager([c \in 1..Len(press) |-> RNorm(press[c], 1000)], Len(press))

\* pvdt_: the pore volume of the cells over the length of the time step.
pvdt_ == Eager([c \in 1..nc |-> <<c + 1, 1>>], nc)

\* ops_.div: what leaves a cell towards the next one minus what enters it
\* from the previous one.
ops_div(mflux) ==
    Eager([c \in 1..nc |-> RSub(mflux[c], IF c = 1 THEN RZero ELSE mflux[c - 1])], nc)

\* An entry of rq_ that nothing was stored in: ADB::null() members.
NullRq == [b |-> <<>>, accum |-> <<<<>>, <<>>>>, mflux |-> <<>>]

\* The cell values behind what fluidReciprocFVF returned: the effective
\* vector, or the evaluation of the property table.
ReciprocFVF_cells(misc, r) ==
    IF misc THEN r.value
    ELSE IF r.value[2] = Solvent THEN Solvent_b ELSE Fluid_b(r.value[2])

\* Base::computeAccum(state, aix): b and accum[aix] of every active phase.
Base_computeAccum(misc, pu, b_eff_, rq, state, aix) ==
    Bind(poroMult(state.pressure), LAMBDA pv_mult :
         Eager([k \in 1..Len(rq) |->
                   IF k > numPhases(pu) THEN rq[k]
                   ELSE Bind(ReciprocFVF_cells(misc, fluidReciprocFVF(misc, pu, b_eff_,
                                                                      canph(pu, k - 1))),
                             LAMBDA b :
                                [rq[k] EXCEPT !.b = b,
                                              !.accum[aix + 1] =
                                                  VMul(VMul(pv_mult, b),
                                                       State_sat(pu, state, canph(pu, k - 1)))])],
               Len(rq)))

\* Mutant: the solvent accumulation is stored under both time indices.
Mut_accum_both_indices(rq_solvent, pv_mult, b, ss, aix) ==
    [rq_solvent EXCEPT !.b = b,
                       !.accum = <<VMul(VMul(pv_mult, b), ss), VMul(VMul(pv_mult, b), ss)>>]

\* rq_[solvent_pos_].b = fluidReciprocFVF(Solvent, pg, ...);
\* rq_[solvent_pos_].accum[aix] = pv_mult * rq_[solvent_pos_].b * ss
computeAccum_solvent(rq_solvent, pv_mult, b, ss, aix) ==
    [rq_solvent EXCEPT !.b = b, !.accum[aix + 1] = VMul(VMul(pv_mult, b), ss)]

\* BlackoilSolventModel::computeAccum(state, aix): rq_ after the call.
computeAccum(hs, misc, pu, b_eff_, rq, state, aix) ==
    Bind(Base_computeAccum(misc, pu, b_eff_, rq, state, aix), LAMBDA base :
         IF ~hs THEN base
         ELSE [base EXCEPT ![solventPos(pu) + 1] =
                  computeAccum_solvent(base[solventPos(pu) + 1], poroMult(state.pressure),
                      ReciprocFVF_cells(misc, fluidReciprocFVF(misc, pu, b_eff_, Solvent)),
                      State_ss(state), aix)])

\* ------------------------------------------------------ mass-balance equations
\* Base::computeMassFlux(actph, transi, kr, mu, rho, phasePressure, state):
\* the mass flux it stores in rq_[actph], carried by the mobility kr * b.
Base_computeMassFlux(rq, call) ==
    [rq EXCEPT ![call.idx + 1].mflux = VMul(call.kr, rq[call.idx + 1].b)]

RECURSIVE ApplyCalls(_, _, _)
ApplyCalls(rq, calls, i) ==
    IF i > Len(calls) THEN rq
    ELSE Bind(Base_computeMassFlux(rq, calls[i]), LAMBDA r : ApplyCalls(r, calls, i + 1))

\* The loop of Base::assembleMassBalanceEq over the active phases, each
\* with one call of computeMassFlux.
RECURSIVE Base_massFluxes(_, _, _, _, _, _, _)
Base_massFluxes(hs, misc, pu, rq, kr, state, actph) ==
    IF actph >= numPhases(pu) THEN rq
    ELSE Bind(ApplyCalls(rq, computeMassFlux(hs, misc, pu, actph, kr[canph(pu, actph) + 1],
                                             state).calls, 1),
              LAMBDA r : Base_massFluxes(hs, misc, pu, r, kr, state, actph + 1))

\* pvdt_ * (rq_[k].accum[1] - rq_[k].accum[0]) + ops_.div * rq_[k].mflux
MassBalance(rq_k) ==
    VAdd(VMul(pvdt_, VSub(rq_k.accum[2], rq_k.accum[1])), ops_div(rq_k.mflux))

\* Base::assembleMassBalanceEq(state): the new accumulation, the mass
\* fluxes, and the equations of the active phases.
Base_assembleMassBalanceEq(hs, misc, pu, b_eff_, rq, residual, state) ==
    Bind(computeAccum(hs, misc, pu, b_eff_, rq, state, 1), LAMBDA accum :
    Bind(computeRelPerm(hs, misc, pu, state).relperm, LAMBDA kr :
    Bind(Base_massFluxes(hs, misc, pu, accum, kr, state, 0), LAMBDA fluxes :
         [rq |-> fluxes,
          material_balance_eq |->
              Eager([k \in 1..Len(residual) |->
                        IF k <= numPhases(pu) THEN MassBalance(fluxes[k]) ELSE residual[k]],
                    Len(residual))])))

\* Mutant: the solvent equation is stored in the first equation.
Mut_solvent_eq_first(pu, eq, rq_solvent) ==
    [eq EXCEPT ![1] = MassBalance(rq_solvent)]

\* residual_.material_balance_eq[solvent_pos_] = pvdt_ * (accum[1] - accum[0])
\*                                               + ops_.div * mflux
assembleMassBalanceEq_solvent(pu, eq, rq_solvent) ==
    [eq EXCEPT ![solventPos(pu) + 1] = MassBalance(rq_solvent)]

\* BlackoilSolventModel::assembleMassBalanceEq(state): rq_ and the
\* mass-balance equations after the call.
assembleMassBalanceEq(hs, misc, pu, b_eff_, rq, residual, state) ==
    Bind(Base_assembleMassBalanceEq(hs, misc, pu, b_eff_, rq, residual, state),
         LAMBDA base :
            IF ~hs THEN base
            ELSE [base EXCEPT !.material_balance_eq =
                     assembleMassBalanceEq_solvent(pu, base.material_balance_eq,
                                                   base.rq[solventPos(pu) + 1])])

\* ------------------------------------------------------------------ assemble
RECURSIVE SumSpan(_, _, _)
SumSpan(x, from, to) == IF from > to THEN RZero ELSE RAdd(x[to], SumSpan(x, from, to - 1))

\* WellDensitySegmented::computeConnectionDensities: the density of the
\* mixture at each perforation, from the b factors and surface densities
\* of conn, the outcome of the first part of computeWellConnectionPressures.
computeConnectionDensities(pu, conn) ==
    IF pu[Gas] THEN VMul(conn.bg, conn.rhog)
    ELSE VConst(nperf, RMul(Fluid_b(Oil)[1], Fluid_surfaceDensity(Oil)[1]))

\* WellDensitySegmented::computeConnectionPressureDelta: the pressure drop
\* from the top of the well down to each perforation.
computeConnectionPressureDelta(densities) ==
    Eager([i \in 1..nperf |->
              SumSpan(densities, well_connpos(WellOfPerf(i - 1) - 1) + 1, i)], nperf)

\* Mutant: the old accumulation and the well connection pressures are
\* recomputed by every assembly.
Mut_old_time_level_every_call(initial_assembly, hs, misc, pu, wa, b_eff_, m, state, xw) ==
    Bind(IF wa
         THEN computeConnectionDensities(pu, computeWellConnectionPressures(hs, pu, state, xw))
         ELSE <<>>,
         LAMBDA densities :
            [rq |-> computeAccum(hs, misc, pu, b_eff_, m.rq, state, 0),
             densities |-> IF wa THEN densities ELSE m.densities,
             pressure_diffs |-> IF wa THEN computeConnectionPressureDelta(densities)
                                ELSE m.pressure_diffs])

\* if (initial_assembly) { ... computeAccum(state0, 0);
\* computeWellConnectionPressures(state0, well_state); }: the old
\* accumulation and, with active wells, the connection densities and
\* pressure differences.
assemble_old_time_level(initial_assembly, hs, misc, pu, wa, b_eff_, m, state, xw) ==
    IF ~initial_assembly
    THEN [rq |-> m.rq, densities |-> m.densities, pressure_diffs |-> m.pressure_diffs]
    ELSE Bind(IF wa
              THEN computeConnectionDensities(pu,
                       computeWellConnectionPressures(hs, pu, state, xw))
              ELSE <<>>,
              LAMBDA densities :
                 [rq |-> computeAccum(hs, misc, pu, b_eff_, m.rq, state, 0),
                  densities |-> IF wa THEN densities ELSE m.densities,
                  pressure_diffs |-> IF wa THEN computeConnectionPressureDelta(densities)
                                     ELSE m.pressure_diffs])

\* Mutant: the effective properties of the current state are computed after
\* the mass-balance equations.
Mut_steps_effective_properties_late(misc, wa, initial_assembly, solve_welleq_initially) ==
    <<"updateWellControls", "variableState">>
    \o (IF initial_assembly
        THEN <<"makeConstantState">>
             \o (IF misc THEN <<"calculateEffectiveProperties(state0)">> ELSE <<>>)
             \o <<"computeAccum(state0, 0)", "computeWellConnectionPressures(state0)">>
        ELSE <<>>)
    \o <<"assembleMassBalanceEq">>
    \o (IF misc THEN <<"calculateEffectiveProperties(state)">> ELSE <<>>)
    \o (IF wa
        THEN (IF solve_welleq_initially /\ initial_assembly THEN <<"solveWellEq">> ELSE <<>>)
             \o <<"computeWellFlux", "updatePerfPhaseRatesAndPressures", "addWellFluxEq",
                  "addWellContributionToMassBalanceEq", "addWellControlEq">>
        ELSE <<>>)

\* The calls that assemble makes, in order.
assemble_steps(misc, wa, initial_assembly, solve_welleq_initially) ==
    <<"updateWellControls", "variableState">>
    \o (IF initial_assembly
        THEN <<"makeConstantState">>
             \o (IF misc THEN <<"calculateEffectiveProperties(state0)">> ELSE <<>>)
             \o <<"computeAccum(state0, 0)", "computeWellConnectionPressures(state0)">>
        ELSE <<>>)
    \o (IF misc THEN <<"calculateEffectiveProperties(state)">> ELSE <<>>)
    \o <<"assembleMassBalanceEq">>
    \o (IF wa
        THEN (IF solve_welleq_initially /\ initial_assembly THEN <<"solveWellEq">> ELSE <<>>)
             \o <<"computeWellFlux", "updatePerfPhaseRatesAndPressures", "addWellFluxEq",
                  "addWellContributionToMassBalanceEq", "addWellControlEq">>
        ELSE <<>>)

\* BlackoilSolventModel::assemble: the calls it makes, in order, the inputs
\* of the well flux it builds, and the members of the model after the call.
\* The members m are mu_eff, b_eff, rq, material_balance_eq, densities and
\* pressure_diffs; cq_s is the perforation flux that computeWellFlux finds.
assemble(hs, misc, pu, wa, m, state, xw, props, cq_s, initial_assembly, solve_welleq_initially) ==
        Bind(IF misc
             THEN calculateEffectiveProperties(pu, state, props.mu, props.mix_param_mu,
                                               props.mix_param_rho)
             ELSE [mu_eff |-> m.mu_eff, b_eff |-> m.b_eff], LAMBDA eff :
        Bind(assemble_old_time_level(initial_assembly, hs, misc, pu, wa, eff.b_eff, m,
                                     state, xw), LAMBDA old :
        Bind(assembleMassBalanceEq(hs, misc, pu, eff.b_eff, old.rq, m.material_balance_eq,
                                   state), LAMBDA mb :
             [steps |-> assemble_steps(misc, wa, initial_assembly, solve_welleq_initially),
              F_solvent |-> IF hs /\ wa THEN F_solvent_assemble(pu, state) ELSE <<>>,
              b_perfcells_gas |-> IF hs /\ wa THEN assemble_b_perfcells_gas(pu, state)
                                  ELSE <<>>,
              mu_eff |-> eff.mu_eff,
              b_eff |-> eff.b_eff,
              rq |-> mb.rq,
              material_balance_eq |->
                  IF wa
                  THEN addWellContributionToMassBalanceEq(hs, pu, mb.material_balance_eq,
                                                          cq_s, state, xw)
                  ELSE mb.material_balance_eq,
              densities |-> old.densities,
              pressure_diffs |-> old.pressure_diffs])))

\* ------------------------------------------------------ inputs of a run
\* Phase configurations: oil is always active, with water or gas or both.
PhaseUsages == {pu \in [0..(MaxNumPhases - 1) -> BOOLEAN] : pu[Oil] /\ (pu[Water] \/ pu[Gas])}

\* Changes of one saturation block over the cells, in units of 1/One.
SatBlockDeltas ==
    { [c \in 1..nc |-> 0],
      [c \in 1..nc |-> IF c % 2 = 1 THEN 1 ELSE -1],
      [c \in 1..nc |-> IF c % 2 = 1 THEN -1 ELSE 1] }

PressureDelta == [c \in 1..nc |-> 10 * c]
WellDelta(np) == [i \in 1..(np * nw + nw) |-> 100 + i]

\* Newton update vectors: pressure block, one block per saturation unknown,
\* the solvent block when solvent is enabled, then the well unknowns.
DxSet(hs, pu) ==
    LET W == IF pu[Water] THEN SatBlockDeltas ELSE {<<>>}
        G == IF pu[Gas] THEN SatBlockDeltas ELSE {<<>>}
        S == IF hs THEN SatBlockDeltas ELSE {<<>>}
    IN  {PressureDelta \o w \o g \o s \o WellDelta(numPhases(pu)) : w \in W, g \in G, s \in S}

InitialReservoir(pu) ==
    LET np == numPhases(pu)
    IN  [pressure |-> [c \in 1..nc |-> 1000],
         saturation |-> [i \in 1..(nc * np) |->
                            IF (i - 1) % np = phase_pos(pu, Oil) THEN One ELSE 0],
         solvent_saturation |-> [c \in 1..nc |-> 0]]

InitialWells(pu) ==
    [bhp |-> [w \in 1..nw |-> 5000 + w],
     wellRates |-> [i \in 1..(numPhases(pu) * nw) |-> 700 + i],
     perfPress |-> [i \in 1..nperf |-> 4000 + 100 * i],
     solventFraction |-> [i \in 1..nperf |-> <<1, 1>>]]

NoCall == [op |-> "none"]

\* No simulation is running.
NoRun == [pc |-> "idle"]

\* The members that an assembly reads and stores.
Members ==
    [mu_eff |-> mu_eff, b_eff |-> b_eff, rq |-> rq_, material_balance_eq |-> residual_,
     densities |-> well_perforation_densities_,
     pressure_diffs |-> well_perforation_pressure_diffs_]

\* Mutant: the constructor accepts every combination of options.
Mut_constructor_accepts(hs, hv) == FALSE

\* if (has_solvent_) { ... if (has_vapoil_) OPM_THROW(std::runtime_error, ...) }
Constructor_throws(hs, hv) == hs /\ hv

\* Mutant: rq_ and the residual get their solvent slot whether or not the
\* model has solvent.
Mut_constructor_resizes_always(hs, hv, misc, pu) ==
    IF Constructor_throws(hs, hv)
    THEN [status |-> "throw", what |-> "Solvent option only works with dead gas"]
    ELSE [status |-> "ok", has_solvent |-> hs, has_vapoil |-> hv, is_miscible |-> misc,
          mu_eff |-> IF misc THEN [k \in 1..(numPhases(pu) + 1) |-> <<>>] ELSE <<>>,
          b_eff |-> IF misc THEN [k \in 1..(numPhases(pu) + 1) |-> <<>>] ELSE <<>>,
          rq |-> [k \in 1..(numPhases(pu) + 1) |-> NullRq],
          material_balance_eq |-> [k \in 1..(numPhases(pu) + 1) |-> <<>>]]

\* BlackoilSolventModel::BlackoilSolventModel: the exception it leaves
\* with, or the fields of the constructed model.
Constructor(hs, hv, misc, pu) ==
    IF Constructor_throws(hs, hv)
    THEN [status |-> "throw", what |-> "Solvent option only works with dead gas"]
    ELSE [status |-> "ok", has_solvent |-> hs, has_vapoil |-> hv, is_miscible |-> misc,
          mu_eff |-> IF misc THEN [k \in 1..(numPhases(pu) + 1) |-> <<>>] ELSE <<>>,
          b_eff |-> IF misc THEN [k \in 1..(numPhases(pu) + 1) |-> <<>>] ELSE <<>>,
          rq |-> [k \in 1..(numPhases(pu) + (IF hs THEN 1 ELSE 0)) |-> NullRq],
          material_balance_eq |->
              [k \in 1..(numPhases(pu) + (IF hs THEN 1 ELSE 0)) |-> <<>>]]

\* The model instances that construction yields.
Constructed ==
    /\ has_solvent \in BOOLEAN
    /\ has_vapoil \in BOOLEAN
    /\ is_miscible \in BOOLEAN
    /\ phase_used \in PhaseUsages
    /\ LET m == Constructor(has_solvent, has_vapoil, is_miscible, phase_used)
       IN  /\ m.status = "ok"
           /\ mu_eff = m.mu_eff
           /\ b_eff = m.b_eff
           /\ rq_ = m.rq
           /\ residual_ = m.material_balance_eq
    /\ well_perforation_densities_ = <<>>
    /\ well_perforation_pressure_diffs_ = <<>>
    /\ sim = NoRun

Init ==
    /\ Constructed
    /\ wells_active = TRUE
    /\ reservoir_state = InitialReservoir(phase_used)
    /\ well_state = InitialWells(phase_used)
    /\ iteration = 0
    /\ result = NoCall

\* One Newton update by a vector of D.
UpdateStateBy(D) ==
    /\ iteration < MaxIter
    /\ \E dx \in D :
          LET r == updateState(has_solvent, phase_used, dx, reservoir_state, well_state)
          IN  /\ reservoir_state' = r.reservoir
              /\ well_state' = r.well
              /\ result' = [op |-> "updateState", dx |-> dx, dss |-> r.dss,
                            base_dx |-> r.base_dx, ss_old |-> r.ss_old,
                            base_saturation |-> r.base_saturation]
    /\ iteration' = iteration + 1
    /\ UNCHANGED <<assembled, sim, wells_active, has_solvent, has_vapoil, is_miscible,
                   phase_used, mu_eff, b_eff>>

\* One Newton update: updateState(dx, reservoir_state, well_state).
UpdateState == UpdateStateBy(DxSet(has_solvent, phase_used))

\* variableState, as assemble calls it: the indices table, the initial
\* blocks, and the solution state extracted from them.
VariableState ==
    /\ variableStateIndices_assert(phase_used)
    /\ variableStateInitials_asserts(has_solvent, phase_used, reservoir_state, well_state)
    /\ LET indices == variableStateIndices(has_solvent, phase_used)
           vars0 == variableStateInitials(has_solvent, phase_used, reservoir_state, well_state)
       IN  \E state \in variableStateExtractVars(has_solvent, phase_used, indices, vars0) :
              result' = [op |-> "variableState", indices |-> indices, vars0 |-> vars0,
                         state |-> state]
    /\ UNCHANGED <<assembled, sim, wells_active, has_solvent, has_vapoil, is_miscible, phase_used, reservoir_state, well_state,
                   iteration, mu_eff, b_eff>>

\* variableStateExtractVars called with a given indices table.
ExtractVars ==
    /\ \E indices \in IndicesInputs(has_solvent, phase_used) :
          LET vars0 == variableStateInitials(has_solvent, phase_used, reservoir_state, well_state)
          IN  \E state \in variableStateExtractVars(has_solvent, phase_used, indices, vars0) :
                 result' = [op |-> "variableStateExtractVars", indices |-> indices,
                            vars0 |-> vars0, state |-> state]
    /\ UNCHANGED <<assembled, sim, wells_active, has_solvent, has_vapoil, is_miscible, phase_used, reservoir_state, well_state,
                   iteration, mu_eff, b_eff>>

\* Miscible mode reads the oil, gas and water entries of the property
\* vectors at their phase positions: all three phases and the solvent are
\* active.
MiscibleSetup(hs, pu) == hs /\ pu[Water] /\ pu[Oil] /\ pu[Gas]

\* What the property objects answer during one call: the viscosities and
\* the two mixing parameters, which only miscible mode asks for.
PropertyInputs(misc) ==
    IF misc
    THEN {[mu |-> mu, mix_param_mu |-> wm, mix_param_rho |-> wr] :
             mu \in MuInputs, wm \in MixingParameters, wr \in MixingParameters}
    ELSE {[mu |-> CHOOSE mu \in MuInputs : TRUE, mix_param_mu |-> RZero,
           mix_param_rho |-> RZero]}

\* The solution state that variableState builds from the current state.
SolutionState ==
    LET state == CHOOSE st \in variableStateExtractVars(has_solvent, phase_used,
                                  variableStateIndices(has_solvent, phase_used),
                                  variableStateInitials(has_solvent, phase_used,
                                                        reservoir_state, well_state)) : TRUE
    IN  [state EXCEPT
            !.pressure = Eager(state.pressure, Len(state.pressure)),
            !.saturation = Eager([k \in 1..Len(state.saturation) |->
                                     Eager(state.saturation[k], Len(state.saturation[k]))],
                                 Len(state.saturation)),
            !.solvent_saturation = Eager(state.solvent_saturation,
                                         Len(state.solvent_saturation)),
            !.qs = Eager(state.qs, Len(state.qs)),
            !.bhp = Eager(state.bhp, Len(state.bhp))]

\* computeMassFlux(actph, transi, kr, mu, rho, phasePressure, state)
ComputeMassFlux ==
    /\ result = NoCall
    /\ \E actph \in 0..(numPhases(phase_used) - 1) : \E kr \in KrInputs :
          LET r == computeMassFlux(has_solvent, is_miscible, phase_used, actph, kr,
                                   SolutionState)
          IN  result' = [op |-> "computeMassFlux", actph |-> actph, kr |-> kr,
                         F_solvent |-> r.F_solvent, F_cells |-> [c \in 1..nc |-> c - 1],
                         calls |-> r.calls]
    /\ UNCHANGED <<assembled, sim, wells_active, has_solvent, has_vapoil, is_miscible, phase_used, reservoir_state, well_state,
                   iteration, mu_eff, b_eff>>

\* computeRelPerm(state)
ComputeRelPerm ==
    /\ result = NoCall
    /\ LET r == computeRelPerm(has_solvent, is_miscible, phase_used, SolutionState)
       IN  result' = [op |-> "computeRelPerm", status |-> r.status,
                      F_solvent |-> r.F_solvent, F_cells |-> [c \in 1..nc |-> c - 1],
                      relperm |-> r.relperm]
    /\ UNCHANGED <<assembled, sim, wells_active, has_solvent, has_vapoil, is_miscible, phase_used, reservoir_state, well_state,
                   iteration, mu_eff, b_eff>>

\* computeWellConnectionPressures(state, xw)
ComputeWellConnectionPressures ==
    /\ result = NoCall
    /\ nw > 0
    /\ LET r == computeWellConnectionPressures(has_solvent, phase_used, SolutionState, well_state)
       IN  result' = [op |-> "computeWellConnectionPressures", avg_press |-> r.avg_press,
                      F_solvent |-> r.F_cell, F_cells |-> well_cells,
                      F_perf |-> r.F_solvent, bg |-> r.bg, rhog |-> r.rhog]
    /\ UNCHANGED <<assembled, sim, wells_active, has_solvent, has_vapoil, is_miscible, phase_used, reservoir_state, well_state,
                   iteration, mu_eff, b_eff>>

\* addWellContributionToMassBalanceEq(cq_s, state, xw); the code indexes
\* cq_s with the positions of gas and oil, which exist when gas is active.
AddWellContributionToMassBalanceEq ==
    /\ result = NoCall
    /\ has_solvent => phase_used[Gas]
    /\ \E cq_s \in CqsInputs(numPhases(phase_used)) :
          LET before == Residual0(has_solvent, numPhases(phase_used))
              after == addWellContributionToMassBalanceEq(has_solvent, phase_used, before,
                                                          cq_s, SolutionState, well_state)
          IN  result' = [op |-> "addWellContributionToMassBalanceEq", cq_s |-> cq_s,
                         F_solvent |-> IF has_solvent
                                       THEN F_solvent_addWellContribution(phase_used, SolutionState)
                                       ELSE <<>>,
                         F_cells |-> well_cells,
                         before |-> before, after |-> after]
    /\ UNCHANGED <<assembled, sim, wells_active, has_solvent, has_vapoil, is_miscible, phase_used, reservoir_state, well_state,
                   iteration, mu_eff, b_eff>>

\* The model after assemble returned r, called with initial_assembly.
Assembled(r, initial_assembly) ==
    /\ result' = [op |-> "assemble", initial_assembly |-> initial_assembly,
                  steps |-> r.steps, F_solvent |-> r.F_solvent,
                  F_cells |-> well_cells, b_perfcells_gas |-> r.b_perfcells_gas,
                  before |-> Members]
    /\ mu_eff' = r.mu_eff
    /\ b_eff' = r.b_eff
    /\ rq_' = r.rq
    /\ residual_' = r.material_balance_eq
    /\ well_perforation_densities_' = r.densities
    /\ well_perforation_pressure_diffs_' = r.pressure_diffs
    /\ UNCHANGED <<sim, wells_active, has_solvent, has_vapoil, is_miscible, phase_used,
                   reservoir_state, well_state, iteration>>

\* assemble(reservoir_state, well_state, true): the first assembly of a time
\* step that starts from the current state.
Assemble ==
    /\ result = NoCall
    /\ has_solvent => phase_used[Gas]
    /\ is_miscible => MiscibleSetup(has_solvent, phase_used)
    /\ \E props \in PropertyInputs(is_miscible) :
       \E cq_s \in CqsInputs(numPhases(phase_used)) : \E state \in {SolutionState} :
       \E r \in {assemble(has_solvent, is_miscible, phase_used, wells_active, Members,
                          state, well_state, props, cq_s, TRUE, TRUE)} :
          Assembled(r, TRUE)

Next ==
    \/ UpdateState
    \/ VariableState
    \/ ExtractVars

\* The states an assembly starts from: the initial state, the states one
\* Newton update leaves, and the states a second update by the same
\* vector leaves.
AssemblyStates(hs, pu) ==
    LET once == {LET r == updateState(hs, pu, dx, InitialReservoir(pu), InitialWells(pu))
                 IN  [reservoir |-> r.reservoir, well |-> r.well, dx |-> dx] :
                 dx \in DxSet(hs, pu)}
        twice == {LET r == updateState(hs, pu, x.dx, x.reservoir, x.well)
                  IN  [reservoir |-> r.reservoir, well |-> r.well] : x \in once}
    IN  {[reservoir |-> InitialReservoir(pu), well |-> InitialWells(pu)]}
        \cup {[reservoir |-> x.reservoir, well |-> x.well] : x \in once}
        \cup twice

InitAssembly ==
    /\ Constructed
    /\ wells_active = TRUE
    /\ \E x \in AssemblyStates(has_solvent, phase_used) :
          /\ reservoir_state = x.reservoir
          /\ well_state = x.well
    /\ iteration = 0
    /\ result = NoCall

\* calculateEffectiveProperties(state), which assemble calls on the state
\* that variableState built, before any other step of the assembly.
CalculateEffectiveProperties ==
    /\ is_miscible /\ MiscibleSetup(has_solvent, phase_used)
    /\ result = NoCall
    /\ \E props \in PropertyInputs(is_miscible) :
          LET r == calculateEffectiveProperties(phase_used, SolutionState, props.mu,
                                                props.mix_param_mu, props.mix_param_rho)
              v == calculateEffectiveProperties_vectors(phase_used, SolutionState, props.mu)
          IN  /\ mu_eff' = r.mu_eff
              /\ b_eff' = r.b_eff
              /\ result' = [op |-> "calculateEffectiveProperties",
                            mix_param_mu |-> props.mix_param_mu,
                            mix_param_rho |-> props.mix_param_rho,
                            viscosity |-> v.viscosity, density |-> v.density,
                            effective_saturations |-> v.effective_saturations,
                            ToddLongstaff |->
                                ToddLongstaffModel(v.viscosity, v.density,
                                                   v.effective_saturations, phase_used,
                                                   props.mix_param_mu, props.mix_param_rho)]
    /\ UNCHANGED <<assembled, sim, wells_active, has_solvent, has_vapoil, is_miscible, phase_used, reservoir_state, well_state,
                   iteration>>

\* The phase indices whose lookup reads an entry that exists: in miscible
\* mode a canonical phase is looked up at its phase position.
LookupInputs == {phase \in PhaseIndexInputs :
                    (is_miscible /\ phase \in {Water, Oil, Gas}) => phase_used[phase]}

\* fluidViscosity(phase, p, temp, rs, rv, cond)
FluidViscosity ==
    /\ result.op \in {"none", "calculateEffectiveProperties"}
    /\ \E phase \in LookupInputs :
          LET r == fluidViscosity(is_miscible, phase_used, mu_eff, phase)
          IN  result' = [op |-> "fluidViscosity", phase |-> phase, returned |-> r]
    /\ UNCHANGED <<assembled, sim, wells_active, has_solvent, has_vapoil, is_miscible, phase_used, reservoir_state, well_state,
                   iteration, mu_eff, b_eff>>

\* fluidReciprocFVF(phase, p, temp, rs, rv, cond)
FluidReciprocFVF ==
    /\ result.op \in {"none", "calculateEffectiveProperties"}
    /\ \E phase \in LookupInputs :
          LET r == fluidReciprocFVF(is_miscible, phase_used, b_eff, phase)
          IN  result' = [op |-> "fluidReciprocFVF", phase |-> phase, returned |-> r]
    /\ UNCHANGED <<assembled, sim, wells_active, has_solvent, has_vapoil, is_miscible, phase_used, reservoir_state, well_state,
                   iteration, mu_eff, b_eff>>

\* fluidDensity(phase, b, rs, rv)
FluidDensity ==
    /\ result.op \in {"none", "calculateEffectiveProperties"}
    /\ \E phase \in PhaseIndexInputs :
          \E r \in fluidDensity(has_solvent, phase_used, phase) :
              result' = [op |-> "fluidDensity", phase |-> phase, returned |-> r]
    /\ UNCHANGED <<assembled, sim, wells_active, has_solvent, has_vapoil, is_miscible, phase_used, reservoir_state, well_state,
                   iteration, mu_eff, b_eff>>

\* computeAccum(state, aix) on a fresh model or after an assembly; in
\* miscible mode it reads the effective values that the assembly stored.
ComputeAccum ==
    /\ result.op \in {"none", "assemble"}
    /\ is_miscible => result.op = "assemble"
    /\ \E aix \in {0, 1} : \E state \in {SolutionState} :
          /\ rq_' = computeAccum(has_solvent, is_miscible, phase_used, b_eff, rq_, state, aix)
          /\ result' = [op |-> "computeAccum", aix |-> aix, before |-> rq_,
                        pv_mult |-> poroMult(state.pressure),
                        saturation |-> [p \in {Water, Oil, Gas} |->
                                           State_sat(phase_used, state, p)],
                        solvent_saturation |-> State_ss(state)]
    /\ UNCHANGED <<residual_, well_perforation_densities_, well_perforation_pressure_diffs_,
                   sim, wells_active, has_solvent, has_vapoil, is_miscible, phase_used,
                   reservoir_state, well_state, iteration, mu_eff, b_eff>>

\* The steps of one assembly on the current state: one handler call, or a
\* property lookup after the effective properties were stored.
NextAssembly ==
    \/ ComputeAccum
    \/ CalculateEffectiveProperties
    \/ FluidViscosity
    \/ FluidReciprocFVF
    \/ FluidDensity
    \/ ComputeMassFlux
    \/ ComputeRelPerm
    \/ ComputeWellConnectionPressures
    \/ AddWellContributionToMassBalanceEq
    \/ Assemble

SpecAssembly == InitAssembly /\ [][NextAssembly]_vars

\* ------------------------------------------------------------ one time step
\* Update vectors that change every saturation by the same pattern.
StepDxSet(hs, pu) ==
    {PressureDelta \o (IF pu[Water] THEN d ELSE <<>>) \o (IF pu[Gas] THEN d ELSE <<>>)
         \o (IF hs THEN d ELSE <<>>) \o WellDelta(numPhases(pu)) : d \in SatBlockDeltas}

\* The states a time step starts from: the initial state and the states
\* that one such update leaves.
StepStartStates(hs, pu) ==
    {[reservoir |-> InitialReservoir(pu), well |-> InitialWells(pu)]}
    \cup {LET r == updateState(hs, pu, dx, InitialReservoir(pu), InitialWells(pu))
          IN  [reservoir |-> r.reservoir, well |-> r.well] : dx \in StepDxSet(hs, pu)}

\* The property tables of the run of a time step.
StepProperties ==
    CHOOSE props \in PropertyInputs(TRUE) :
        /\ props.mix_param_mu = ROne
        /\ props.mix_param_rho = ROne
        /\ props.mu.o # props.mu.s

\* A model at the start of a time step, with or without wells, in a
\* configuration that assemble supports.
InitTimeStep ==
    /\ Constructed
    /\ wells_active \in BOOLEAN
    /\ has_solvent => phase_used[Gas]
    /\ is_miscible => MiscibleSetup(has_solvent, phase_used)
    /\ \E x \in StepStartStates(has_solvent, phase_used) :
          /\ reservoir_state = x.reservoir
          /\ well_state = x.well
    /\ iteration = 0
    /\ result = NoCall

\* The assembly of one Newton iteration:
\* assemble(reservoir_state, well_state, iteration == 0), with or without
\* the option param_.solve_welleq_initially_.
AssembleInStep ==
    /\ result.op \in {"none", "updateState"}
    /\ \E cq_s \in CqsInputs(numPhases(phase_used)) : \E solve_welleq_initially \in BOOLEAN :
       \E state \in {SolutionState} :
       \E r \in {assemble(has_solvent, is_miscible, phase_used, wells_active, Members,
                          state, well_state, StepProperties, cq_s, iteration = 0,
                          solve_welleq_initially)} :
          Assembled(r, iteration = 0)

\* The update that follows the assembly of an iteration.
UpdateInStep ==
    /\ result.op = "assemble"
    /\ UpdateStateBy(StepDxSet(has_solvent, phase_used))

\* assembleMassBalanceEq(state), as the assembly after an update calls it.
AssembleMassBalanceEq ==
    /\ result.op = "updateState"
    /\ \E state \in {SolutionState} :
       \E r \in {assembleMassBalanceEq(has_solvent, is_miscible, phase_used, b_eff, rq_,
                                       residual_, state)} :
          /\ rq_' = r.rq
          /\ residual_' = r.material_balance_eq
          /\ result' = [op |-> "assembleMassBalanceEq",
                        base |-> Base_assembleMassBalanceEq(has_solvent, is_miscible,
                                     phase_used, b_eff, rq_, residual_,
                                     state).material_balance_eq]
    /\ UNCHANGED <<well_perforation_densities_, well_perforation_pressure_diffs_,
                   sim, wells_active, has_solvent, has_vapoil, is_miscible, phase_used,
                   reservoir_state, well_state, iteration, mu_eff, b_eff>>

NextTimeStep ==
    \/ AssembleInStep
    \/ UpdateInStep
    \/ AssembleMassBalanceEq

SpecTimeStep == InitTimeStep /\ [][NextTimeStep]_vars

\* The handlers called one by one on a model inside a time step: the steps
\* of the time step, and any single handler on the state the step starts
\* from or has reached.
NextHandlers ==
    \/ AssembleInStep
    \/ UpdateInStep
    \/ AssembleMassBalanceEq
    \/ VariableState
    \/ ExtractVars
    \/ ComputeAccum
    \/ ComputeMassFlux
    \/ AddWellContributionToMassBalanceEq

SpecHandlers == InitTimeStep /\ [][NextHandlers]_vars

\* ---------------------------------------------------------- equation scaling
\* A double keeps MantBits significant bits: the nearest such value, ties
\* to the even significand.
RECURSIVE FRoundScaled(_, _, _)
FRoundScaled(a, d, e) ==
    IF a < (2 ^ (MantBits - 1)) * d THEN FRoundScaled(2 * a, d, e - 1)
    ELSE IF a >= (2 ^ MantBits) * d THEN FRoundScaled(a, 2 * d, e + 1)
    ELSE LET q == a \div d
             r == a % d
             m == IF 2 * r > d \/ (2 * r = d /\ q % 2 = 1) THEN q + 1 ELSE q
         IN  IF e >= 0 THEN RNorm(m * (2 ^ e), 1) ELSE RNorm(m, 2 ^ (-e))

FRound(x) ==
    IF x[2] = 0 \/ x[1] = 0 THEN x
    ELSE LET y == FRoundScaled(Abs(x[1]), x[2], 0)
         IN  <<Sign(x[1]) * y[1], y[2]>>

\* Addition and division of doubles.
FAdd(a, b) == FRound(RAdd(a, b))
FDiv(a, b) == FRound(RDiv(a, b))

\* The sum of the entries of x in the order of the indices in seq.
RECURSIVE FSum(_, _)
FSum(x, seq) ==
    IF seq = <<>> THEN RZero
    ELSE FAdd(FSum(x, SubSeq(seq, 1, Len(seq) - 1)), x[seq[Len(seq)]])

\* rq_[solvent_pos_].b over the cells.
SolventBInputs == [1..nc -> {RNorm(1, 1), RNorm(3, 1), RNorm(8, 1)}]

\* The owner rank of each cell of the global grid, for up to MaxRanks ranks,
\* every rank owning a cell.
Partitions ==
    {owner \in [1..nc -> 1..MaxRanks] :
        \A r \in 2..MaxRanks :
            (\E c \in 1..nc : owner[c] = r) => \E c \in 1..nc : owner[c] = r - 1}

\* The cells a rank owns, in grid order.
RECURSIVE OwnedCells(_, _, _)
OwnedCells(owner, r, n) ==
    IF n = 0 THEN <<>>
    ELSE OwnedCells(owner, r, n - 1) \o (IF owner[n] = r THEN <<n>> ELSE <<>>)

\* real_info.computeReduction(B, makeGlobalSumFunctor<double>(), B_global_sum):
\* every rank sums the entries it owns, and the sums of the ranks are added
\* up in rank order.
computeReduction_sum(B, owner) ==
    LET partial == [r \in 1..MaxRanks |-> FSum(B, OwnedCells(owner, r, nc))]
    IN  FSum(partial, [r \in 1..MaxRanks |-> r])

\* B.mean(): the sum of the entries in index order, divided by their number.
Eigen_mean(B) == FDiv(FSum(B, [c \in 1..nc |-> c]), RNorm(nc, 1))

\* BlackoilSolventModel::updateEquationsScaling: residual_.matbalscale at
\* the solvent position.
updateEquationsScaling(temp_b, parallel, owner) ==
    LET B == Eager([c \in 1..nc |-> FDiv(ROne, temp_b[c])], nc)
    IN  IF parallel
        THEN LET B_global_sum == computeReduction_sum(B, owner)
             IN  FDiv(B_global_sum, RNorm(nc, 1))
        ELSE Eigen_mean(B)

\* A model that has computed its accumulation terms.
InitScaling ==
    /\ Constructed
    /\ wells_active = TRUE
    /\ reservoir_state = InitialReservoir(phase_used)
    /\ well_state = InitialWells(phase_used)
    /\ iteration = 0
    /\ result = NoCall

\* updateEquationsScaling(), called once after the accumulation terms, in
\* a sequential run or in a distributed run over the partition owner.
UpdateEquationsScaling ==
    /\ has_solvent
    /\ result = NoCall
    /\ \E temp_b \in SolventBInputs, parallel \in BOOLEAN, owner \in Partitions :
          result' = [op |-> "updateEquationsScaling", b |-> temp_b, parallel |-> parallel,
                     owner |-> owner,
                     matbalscale |-> updateEquationsScaling(temp_b, parallel, owner)]
    /\ UNCHANGED <<assembled, sim, wells_active, has_solvent, has_vapoil, is_miscible, phase_used, reservoir_state, well_state,
                   iteration, mu_eff, b_eff>>

NextScaling == UpdateEquationsScaling

SpecScaling == InitScaling /\ [][NextScaling]_vars

\* ------------------------------------------------------------------ restart
\* ExtraData: double suggested_step = -1.0
ExtraData == [suggested_step |-> <<-1, 1>>]

\* The extra fields of a restart file: OPMEXTRA absent, or a vector of
\* doubles; the key is loaded as not required.
RestartExtras == {<<"absent">>, <<"present", <<RNorm(5, 1)>> >>, <<"present", <<RNorm(7, 2)>> >>,
                  <<"present", <<RNorm(3, 1), RNorm(9, 1)>> >>}

\* restart_values.hasExtra("OPMEXTRA") and restart_values.getExtra("OPMEXTRA")
RestartValues_hasExtra(restart) == restart.extra[1] = "present"
RestartValues_getExtra(restart) == restart.extra[2]

\* The well data of a restart file, as wellsToState puts them in a resized
\* well state.
RestartWells(pu) ==
    {[bhp |-> [w \in 1..nw |-> 3000 * k + w],
      wellRates |-> [i \in 1..(numPhases(pu) * nw) |-> 50 * k + i],
      perfPress |-> [i \in 1..nperf |-> 2000 * k + 10 * i],
      solventFraction |-> [i \in 1..nperf |-> RNorm(k - 1, 1)]] : k \in 1..2}

\* Restart files: the extras, the well data, and the number of wells at
\* the restart step.
RestartFiles(pu) ==
    {[extra |-> e, wells |-> w, number_of_wells |-> n] :
        e \in RestartExtras, w \in RestartWells(pu), n \in {0, nw}}

\* Mutant: a restart without OPMEXTRA leaves the suggested step as it was.
Mut_extra_kept_when_missing(restart, extra, ndebug) ==
    IF RestartValues_hasExtra(restart)
    THEN [status |-> "ok", log |-> <<>>,
          extra |-> [extra EXCEPT !.suggested_step = RestartValues_getExtra(restart)[1]]]
    ELSE [status |-> "ok", log |-> <<"warning">>, extra |-> extra]

\* initFromRestartFile, from if (restart_values.hasExtra("OPMEXTRA")) on:
\* the assert aborts a build with assertions, and is absent otherwise.
initFromRestartFile_extra(restart, extra, ndebug) ==
    IF RestartValues_hasExtra(restart)
    THEN LET opmextra == RestartValues_getExtra(restart)
         IN  IF Len(opmextra) # 1 /\ ~ndebug
             THEN [status |-> "abort", log |-> <<>>, extra |-> extra]
             ELSE [status |-> "ok", log |-> <<>>,
                   extra |-> [extra EXCEPT !.suggested_step = opmextra[1]]]
    ELSE [status |-> "ok", log |-> <<"warning">>,
          extra |-> [extra EXCEPT !.suggested_step = <<-1, 1>>]]

\* initFromRestartFile, the wells: if (nw > 0) { wellstate.resize(...);
\* wellsToState(restart_values.wells, phaseUsage_, wellstate); }
initFromRestartFile_wells(restart, wellstate) ==
    IF restart.number_of_wells > 0 THEN restart.wells ELSE wellstate

\* BlackoilOutputEbos::initFromRestartFile
initFromRestartFile(restart, wellstate, extra, ndebug) ==
    LET e == initFromRestartFile_extra(restart, extra, ndebug)
    IN  [wellstate |-> initFromRestartFile_wells(restart, wellstate),
         extra |-> e.extra, status |-> e.status, log |-> e.log]

\* A simulator that has constructed its model and its ExtraData and has not
\* read a restart file.
InitRestart ==
    /\ Constructed
    /\ wells_active = TRUE
    /\ reservoir_state = InitialReservoir(phase_used)
    /\ well_state = InitialWells(phase_used)
    /\ iteration = 0
    /\ result = [op |-> "none", extra |-> ExtraData, status |-> "ok"]

\* initFromRestartFile(phaseUsage, grid, simulatorstate, wellstate, extra);
\* nothing follows an abort.
InitFromRestartFile ==
    /\ result.status = "ok"
    /\ \E restart \in RestartFiles(phase_used), ndebug \in BOOLEAN :
          LET r == initFromRestartFile(restart, well_state, result.extra, ndebug)
          IN  /\ well_state' = r.wellstate
              /\ result' = [op |-> "initFromRestartFile", restart |-> restart,
                            wellstate_before |-> well_state, extra_before |-> result.extra,
                            extra |-> r.extra, status |-> r.status, log |-> r.log]
    /\ UNCHANGED <<assembled, sim, wells_active, has_solvent, has_vapoil, is_miscible, phase_used, reservoir_state,
                   iteration, mu_eff, b_eff>>

NextRestart == InitFromRestartFile

SpecRestart == InitRestart /\ [][NextRestart]_vars

Spec == Init /\ [][Next]_vars

\* ------------------------------------------------------------ simulator run
\* SimulatorFullyImplicitTwophasePolymer::Impl::run(timer, state).  The
\* model object plays no part in it and stays as constructed.
solvent_model == <<has_solvent, has_vapoil, is_miscible, phase_used, reservoir_state,
                   well_state, iteration, mu_eff, b_eff, assembled, wells_active, result>>

\* The step numbers 0 .. n - 1 in order.
StepNumbers(n) == [k \in 1..n |-> k - 1]

\* outputStateVtk (when output_vtk_) and outputStateMatlab for one step.
outputState(vtk, step) ==
    (IF vtk THEN <<[writer |-> "vtk", step |-> step]>> ELSE <<>>)
        \o <<[writer |-> "matlab", step |-> step]>>

\* sreport.reportParam(tstep_os): a write to a stream that is not open
\* fails and leaves the file as it is.
reportParam(tstep_os, file, step) == IF tstep_os = "open" THEN Append(file, step) ELSE file

\* run has been entered with a timer of num_steps steps; it has declared
\* tstep_os and, with output_, opened the step-timing file, and stands
\* before the test of the loop.
InitRun ==
    /\ has_solvent = FALSE
    /\ has_vapoil = FALSE
    /\ is_miscible = FALSE
    /\ phase_used = [p \in 0..(MaxNumPhases - 1) |-> p # Gas]
    /\ LET m == Constructor(has_solvent, has_vapoil, is_miscible, phase_used)
       IN  /\ mu_eff = m.mu_eff
           /\ b_eff = m.b_eff
           /\ rq_ = m.rq
           /\ residual_ = m.material_balance_eq
    /\ well_perforation_densities_ = <<>>
    /\ well_perforation_pressure_diffs_ = <<>>
    /\ wells_active = FALSE
    /\ reservoir_state = InitialReservoir(phase_used)
    /\ well_state = InitialWells(phase_used)
    /\ iteration = 0
    /\ result = NoCall
    /\ \E n \in 0..MaxSteps : \E output \in BOOLEAN : \E vtk \in BOOLEAN :
       \E interval \in 1..2 :
          sim = [pc |-> "loop", num_steps |-> n, current_step |-> 0,
                 output_ |-> output, output_vtk_ |-> vtk, output_interval_ |-> interval,
                 tstep_os |-> IF output THEN "open" ELSE "unopened",
                 step_timing |-> <<>>, state_files |-> <<>>,
                 solver_steps |-> <<>>, advances |-> 0]

\* while (!timer.done()) { step_timer.start(); timer.report(std::cout);
\* if (output_ && (timer.currentStepNum() % output_interval_ == 0)) {...}
RunLoopHead ==
    /\ sim.pc = "loop"
    /\ IF sim.current_step >= sim.num_steps
       THEN sim' = [sim EXCEPT !.pc = "returned"]
       ELSE sim' = [sim EXCEPT
                       !.pc = "solve",
                       !.state_files =
                           IF sim.output_ /\ sim.current_step % sim.output_interval_ = 0
                           THEN @ \o outputState(sim.output_vtk_, sim.current_step)
                           ELSE @]
    /\ UNCHANGED solvent_model

\* solver_.step(timer.currentStepLength(), state, src_, polymer_inflow_c)
SolverStep ==
    /\ sim.pc = "solve"
    /\ sim' = [sim EXCEPT !.pc = "report", !.solver_steps = Append(@, sim.current_step)]
    /\ UNCHANGED solvent_model

\* if (output_) { sreport.reportParam(tstep_os); ... tstep_os.close(); }
StepReport ==
    /\ sim.pc = "report"
    /\ IF sim.output_
       THEN sim' = [sim EXCEPT
                       !.pc = "advance",
                       !.step_timing = reportParam(sim.tstep_os, @, sim.current_step),
                       !.state_files = @ \o outputState(sim.output_vtk_, sim.current_step),
                       !.tstep_os = "closed"]
       ELSE sim' = [sim EXCEPT !.pc = "advance"]
    /\ UNCHANGED solvent_model

\* ++timer
TimerAdvance ==
    /\ sim.pc = "advance"
    /\ sim.current_step < MaxSteps
    /\ sim' = [sim EXCEPT !.pc = "loop", !.current_step = @ + 1, !.advances = @ + 1]
    /\ UNCHANGED solvent_model

NextRun ==
    \/ RunLoopHead
    \/ SolverStep
    \/ StepReport
    \/ TimerAdvance

\* The loop is sequential code: it goes on until it returns.
SpecRun == InitRun /\ [][NextRun]_vars /\ WF_vars(NextRun)

\* ------------------------------------------------------------- properties
\* Saturation of phase p in cell c of a reservoir state (0 when inactive).
SatOf(x, p, c) ==
    IF phase_used[p]
    THEN x.saturation[(c - 1) * numPhases(phase_used) + phase_pos(phase_used, p) + 1]
    ELSE 0

AfterUpdate == result.op = "updateState"

\* C1: with solvent enabled, after updateState the stored oil saturation of
\* every cell is 1 - solvent - gas - water, the gas and water values being
\* those the base update left, whatever the base wrote for oil; so the
\* saturations of the active phases and of the solvent sum to 1.
C1_OilIsClosureResidual ==
    (has_solvent /\ AfterUpdate) =>
        \A c \in 1..nc :
            LET np == numPhases(phase_used)
                base(p) == IF phase_used[p]
                           THEN result.base_saturation[(c - 1) * np + phase_pos(phase_used, p) + 1]
                           ELSE 0
                ss == reservoir_state.solvent_saturation[c]
            IN  /\ SatOf(reservoir_state, Oil, c) = One - ss - base(Gas) - base(Water)
                /\ SatOf(reservoir_state, Water, c) + SatOf(reservoir_state, Oil, c)
                     + SatOf(reservoir_state, Gas, c) + ss = One

\* An update after which the oil saturation differs from what the base wrote.
C1_Witness ==
    /\ has_solvent /\ AfterUpdate
    /\ \E c \in 1..nc :
          /\ reservoir_state.solvent_saturation[c] > 0
          /\ result.base_saturation[(c - 1) * numPhases(phase_used)
                                    + phase_pos(phase_used, Oil) + 1]
               # SatOf(reservoir_state, Oil, c)

\* C2: with solvent enabled, every updateState step sets the solvent
\* saturation of each cell to max(0, old - delta), delta being the cell's
\* entry of the solvent slice of dx; and no solvent saturation is ever
\* negative.
C2_SolventClampedAtZero ==
    /\ [][(has_solvent /\ iteration' = iteration + 1) =>
            \A c \in 1..nc :
                reservoir_state'.solvent_saturation[c] =
                    Max(0, reservoir_state.solvent_saturation[c]
                           - result'.dx[nc * numPhases(phase_used) + c])]_vars
    /\ [](\A c \in 1..nc : reservoir_state.solvent_saturation[c] >= 0)

\* An update in which the clamp acted: old - delta was negative.
C2_Witness ==
    /\ has_solvent /\ AfterUpdate
    /\ \E c \in 1..nc : result.ss_old[c] - result.dss[c] < 0
    /\ \E c \in 1..nc : reservoir_state.solvent_saturation[c] > 0

\* C3: after updateState with solvent enabled no stored saturation of any
\* cell (water, gas, solvent, recomputed oil) is negative.
C3_NoNegativeSaturation ==
    (has_solvent /\ AfterUpdate) =>
        \A c \in 1..nc :
            /\ reservoir_state.solvent_saturation[c] >= 0
            /\ \A p \in {Water, Oil, Gas} : SatOf(reservoir_state, p, c) >= 0

\* C4: with solvent enabled the solvent slice is the nc entries of dx from
\* offset nc * numPhases, and the vector forwarded to the base update is dx
\* without that slice: the entries before it, then the entries after it,
\* in order and unchanged.
C4_SpliceIsExact ==
    (has_solvent /\ AfterUpdate) =>
        LET start == nc * numPhases(phase_used)
            dx == result.dx
            fwd == result.base_dx
        IN  /\ Len(result.dss) = nc
            /\ \A c \in 1..nc : result.dss[c] = dx[start + c]
            /\ Len(fwd) = Len(dx) - nc
            /\ \A i \in 1..Len(fwd) : fwd[i] = IF i <= start THEN dx[i] ELSE dx[i + nc]

\* An update whose solvent slice is non-zero and differs from what follows it.
C4_Witness ==
    /\ has_solvent /\ AfterUpdate
    /\ \E c \in 1..nc : result.dss[c] # 0
    /\ Len(result.base_dx) > nc * numPhases(phase_used)

\* The block of the state that a variable kind stands for.
KindBlock(kind) ==
    LET np == numPhases(phase_used)
    IN  IF kind = Pressure THEN reservoir_state.pressure
        ELSE IF kind = Sw THEN SatCol(reservoir_state.saturation, np, phase_pos(phase_used, Water))
        ELSE IF kind = Xvar THEN SatCol(reservoir_state.saturation, np, phase_pos(phase_used, Gas))
        ELSE IF kind = Qs THEN well_state.wellRates
        ELSE IF kind = Bhp THEN well_state.bhp
        ELSE reservoir_state.solvent_saturation

KindPresent(kind) ==
    IF kind = Sw THEN phase_used[Water]
    ELSE IF kind = Xvar THEN phase_used[Gas]
    ELSE IF kind = Solvent THEN has_solvent
    ELSE TRUE

AfterVariableState == result.op = "variableState"

\* C5: with solvent enabled the initial blocks are the base blocks with the
\* solvent block inserted at position numPhases (the two well blocks after
\* it), the indices table has 6 entries with Solvent = numPhases, the well
\* rate and bottom-hole pressure indices one larger than in the base table
\* and the others unchanged, and the block at the index of every variable
\* kind that is present is that kind's block.
C5_SolventBetweenReservoirAndWells ==
    (has_solvent /\ AfterVariableState) =>
        LET np == numPhases(phase_used)
            base == Base_variableStateInitials(phase_used, reservoir_state, well_state)
            bind == Base_variableStateIndices(phase_used)
            v == result.vars0
            ind == result.indices
        IN  /\ Len(v) = Len(base) + 1
            /\ Len(base) = np + 2
            /\ v[np + 1] = reservoir_state.solvent_saturation
            /\ \A i \in 1..np : v[i] = base[i]
            /\ \A i \in (np + 1)..Len(base) : v[i + 1] = base[i]
            /\ Len(ind) = 6
            /\ At0(ind, Solvent) = np
            /\ At0(ind, Qs) = At0(bind, Qs) + 1
            /\ At0(ind, Bhp) = At0(bind, Bhp) + 1
            /\ \A k \in {Pressure, Sw, Xvar} : At0(ind, k) = At0(bind, k)
            /\ \A k \in {Pressure, Sw, Xvar, Qs, Bhp, Solvent} :
                  KindPresent(k) =>
                      /\ At0(ind, k) \in 0..(Len(v) - 1)
                      /\ At0(v, At0(ind, k)) = KindBlock(k)

\* The solution state is built from a state with solvent in it.
C5_Witness ==
    /\ has_solvent /\ AfterVariableState
    /\ \E c \in 1..nc : reservoir_state.solvent_saturation[c] > 0
    /\ phase_used[Water] /\ phase_used[Gas]

\* C6: with solvent enabled the oil saturation of the solution state is, in
\* every cell, 1 minus the other active phase saturations minus the solvent
\* saturation of that solution state.
C6_OilDerivedInSolutionState ==
    (has_solvent /\ AfterVariableState) =>
        LET st == result.state
            sat(p, c) == IF phase_used[p] THEN st.saturation[phase_pos(phase_used, p) + 1][c]
                         ELSE 0
        IN  /\ st.status = "ok"
            /\ \A c \in 1..nc :
                  sat(Oil, c) = One - sat(Water, c) - sat(Gas, c) - st.solvent_saturation[c]

\* A solution state with solvent and another phase besides oil in some cell.
C6_Witness ==
    /\ has_solvent /\ AfterVariableState
    /\ \E c \in 1..nc :
          /\ result.state.solvent_saturation[c] > 0
          /\ result.state.saturation[phase_pos(phase_used, Oil) + 1][c] < One - 1

\* The sum-to-one closure of a reservoir state.
Closure(x) ==
    \A c \in 1..nc :
        SatOf(x, Water, c) + SatOf(x, Oil, c) + SatOf(x, Gas, c) + x.solvent_saturation[c] = One

\* C7: with solvent enabled, for a reservoir state that satisfies the
\* closure, the solution state extracted from the initial blocks with the
\* offsets of the indices table has the water, oil, gas and solvent
\* saturations of the reservoir state in every cell.
C7_RoundTrip ==
    (has_solvent /\ AfterVariableState /\ Closure(reservoir_state)) =>
        /\ result.state.solvent_saturation = reservoir_state.solvent_saturation
        /\ \A c \in 1..nc : \A p \in {Water, Oil, Gas} :
              phase_used[p] =>
                  result.state.saturation[phase_pos(phase_used, p) + 1][c]
                      = SatOf(reservoir_state, p, c)

\* A round trip over a state with solvent, water or gas, and less oil than 1.
C7_Witness ==
    /\ has_solvent /\ AfterVariableState /\ Closure(reservoir_state)
    /\ \E c \in 1..nc :
          /\ reservoir_state.solvent_saturation[c] > 0
          /\ SatOf(reservoir_state, Water, c) + SatOf(reservoir_state, Gas, c) > 0

\* C8: variableStateExtractVars fails with a contract violation whenever the
\* indices table has not the expected length (5 without solvent, 6 with),
\* and never reads indices[Solvent] past the end of the table.
C8_WrongLengthIsRejected ==
    (result.op = "variableStateExtractVars") =>
        /\ Len(result.indices) # ExpectedIndices(has_solvent)
              => result.state.status = "contract_violation"
        /\ result.state.solvent_read # "past_end"

\* The calls in which the cell solvent fraction ss / (ss + sg) is computed.
SolventFractionSites ==
    {"computeMassFlux", "computeRelPerm", "computeWellConnectionPressures",
     "addWellContributionToMassBalanceEq", "assemble"}

\* C9: wherever the solvent fraction is computed, a cell with sg = 0 and
\* ss = 0 gets the fraction 0, and no fraction is the NaN of 0/0.
C9_ZeroFractionAtZeroSaturations ==
    (has_solvent /\ result.op \in SolventFractionSites) =>
        \A i \in 1..Len(result.F_solvent) :
            LET c == result.F_cells[i] + 1
            IN  /\ result.F_solvent[i] # RNaN
                /\ (reservoir_state.solvent_saturation[c] = 0
                    /\ SatOf(reservoir_state, Gas, c) = 0)
                       => result.F_solvent[i] = RZero

\* The fraction is computed for a perforated cell without gas and solvent,
\* in the well contribution to the mass balance.
C9_Witness ==
    /\ has_solvent /\ result.op = "addWellContributionToMassBalanceEq"
    /\ \E i \in 1..Len(result.F_solvent) :
          /\ reservoir_state.solvent_saturation[result.F_cells[i] + 1] = 0
          /\ SatOf(reservoir_state, Gas, result.F_cells[i] + 1) = 0
    /\ \E c \in 1..nc : reservoir_state.solvent_saturation[c] > 0

\* The solvent fraction of a cell as the saturations of the state give it.
CellSolventFraction(c) ==
    LET ss == reservoir_state.solvent_saturation[c]
        sg == SatOf(reservoir_state, Gas, c)
    IN  IF ss + sg = 0 THEN RZero ELSE RNorm(ss, ss + sg)

GasFluxWithSolvent ==
    /\ has_solvent /\ result.op = "computeMassFlux"
    /\ canph(phase_used, result.actph) = Gas

\* C10: in computeMassFlux for gas with solvent enabled, the gas relative
\* permeability is kr times the gas multiplier at 1 - F, the solvent one is
\* the same kr times the solvent multiplier at F, and in every cell whose
\* fraction F is 0 or 1 the two add up to the kr that was passed in.
C10_GasSolventRelPermSplit ==
    GasFluxWithSolvent =>
        /\ Len(result.calls) = 2
        /\ \A c \in 1..nc :
              LET F == CellSolventFraction(c)
                  krs == result.calls[1].kr[c]
                  krg == result.calls[2].kr[c]
              IN  /\ krs = RMul(solventRelPermMultiplier(<<F>>)[1], result.kr[c])
                  /\ krg = RMul(gasRelPermMultiplier(<<RSub(ROne, F)>>)[1], result.kr[c])
                  /\ (F = RZero \/ F = ROne) => RAdd(krs, krg) = result.kr[c]

\* A gas flux over a cell of fraction 1 and a cell of fraction 0, with a
\* relative permeability that is neither 0 nor 1 in them.
C10_Witness ==
    /\ GasFluxWithSolvent
    /\ \E c \in 1..nc : /\ CellSolventFraction(c) = ROne
                        /\ result.kr[c] \notin {RZero, ROne}
                        /\ result.calls[1].kr[c] = result.kr[c]
    /\ \E c \in 1..nc : /\ CellSolventFraction(c) = RZero
                        /\ result.kr[c] \notin {RZero, ROne}
                        /\ result.calls[2].kr[c] = result.kr[c]

AfterEffectiveProperties == result.op = "calculateEffectiveProperties"

\* The positions of oil, gas and solvent in the property vectors.
MixedPositions ==
    {phase_pos(phase_used, Oil) + 1, phase_pos(phase_used, Gas) + 1, solventPos(phase_used) + 1}

\* C11: in miscible mode, after calculateEffectiveProperties the viscosity
\* that fluidViscosity returns for oil, gas and solvent is the effective
\* viscosity mu^(1 - w) * mu_mixed^w computed by ToddLongstaffModel, and the
\* reciprocal FVF that fluidReciprocFVF returns is the Todd-Longstaff
\* effective density divided by the surface density.
C11_EffectiveValuesAreStored ==
    AfterEffectiveProperties =>
        LET tl == result.ToddLongstaff
            o == phase_pos(phase_used, Oil) + 1
            g == phase_pos(phase_used, Gas) + 1
            s == solventPos(phase_used) + 1
            mu(phase) == fluidViscosity(is_miscible, phase_used, mu_eff, phase).value
            b(phase) == fluidReciprocFVF(is_miscible, phase_used, b_eff, phase).value
        IN  /\ mu(Oil) = ToddLongstaff_effective(result.viscosity[o], tl.mu_mos,
                                                 result.mix_param_mu)
            /\ mu(Gas) = ToddLongstaff_effective(result.viscosity[g], tl.mu_msg,
                                                 result.mix_param_mu)
            /\ mu(Solvent) = ToddLongstaff_effective(result.viscosity[s], tl.mu_m,
                                                     result.mix_param_mu)
            /\ b(Oil) = VDiv(tl.density[o], Fluid_surfaceDensity(Oil))
            /\ b(Gas) = VDiv(tl.density[g], Fluid_surfaceDensity(Gas))
            /\ b(Solvent) = VDiv(tl.density[s], Solvent_surfaceDensity)

\* C12: with both mixing parameters 0, the effective viscosity and the
\* effective density that ToddLongstaffModel computes for oil, gas and
\* solvent are the unmixed viscosity and density, in every cell.
C12_NoMixingIsIdentity ==
    (AfterEffectiveProperties /\ result.mix_param_mu = RZero /\ result.mix_param_rho = RZero)
        => \A k \in MixedPositions :
              /\ result.ToddLongstaff.viscosity[k] = result.viscosity[k]
              /\ result.ToddLongstaff.density[k] = result.density[k]

\* The quarter-power mixed viscosity of two components in one cell.
CellMix2(mu_a, mu_b, s_a, s_b) ==
    LET s_ab == RAdd(s_a, s_b)
    IN  RDiv(RMul(mu_a, mu_b),
             RPow(RAdd(RMul(RDiv(s_a, s_ab), RPow(mu_b, <<1, 4>>)),
                       RMul(RDiv(s_b, s_ab), RPow(mu_a, <<1, 4>>))), <<4, 1>>))

\* The quarter-power mixed viscosity of oil, solvent and gas in one cell.
CellMix3(mu_o, mu_s, mu_g, so, ss, sg) ==
    LET sn == RAdd(RAdd(so, sg), ss)
        po == RPow(mu_o, <<1, 4>>)
        ps == RPow(mu_s, <<1, 4>>)
        pg == RPow(mu_g, <<1, 4>>)
    IN  RDiv(RMul(RMul(mu_o, mu_s), mu_g),
             RPow(RAdd(RAdd(RMul(RMul(RDiv(so, sn), ps), pg),
                            RMul(RMul(RDiv(ss, sn), po), pg)),
                       RMul(RMul(RDiv(sg, sn), ps), po)), <<4, 1>>))

\* C13: a cell whose denominator saturation sum is zero falls back to the
\* single-component viscosity (mu_o for the oil-solvent mix, mu_g for the
\* gas-solvent mix, mu_s for the three-component mix) and the value is a
\* number; every other cell holds the quarter-power mixing formula.
C13_ZeroSumFallsBack ==
    AfterEffectiveProperties =>
        LET tl == result.ToddLongstaff
            o == phase_pos(phase_used, Oil) + 1
            g == phase_pos(phase_used, Gas) + 1
            s == solventPos(phase_used) + 1
        IN  \A c \in 1..nc :
                LET so == result.effective_saturations[o][c]
                    sg == result.effective_saturations[g][c]
                    ss == result.effective_saturations[s][c]
                    mu_o == result.viscosity[o][c]
                    mu_g == result.viscosity[g][c]
                    mu_s == result.viscosity[s][c]
                IN  /\ tl.mu_mos[c] = IF RAdd(so, ss) = RZero THEN mu_o
                                      ELSE CellMix2(mu_o, mu_s, so, ss)
                    /\ tl.mu_msg[c] = IF RAdd(ss, sg) = RZero THEN mu_g
                                      ELSE CellMix2(mu_g, mu_s, sg, ss)
                    /\ tl.mu_m[c] = IF RAdd(RAdd(so, sg), ss) = RZero THEN mu_s
                                    ELSE CellMix3(mu_o, mu_s, mu_g, so, ss, sg)
                    /\ RAdd(so, ss) = RZero => tl.mu_mos[c] # RNaN
                    /\ RAdd(ss, sg) = RZero => tl.mu_msg[c] # RNaN
                    /\ RAdd(RAdd(so, sg), ss) = RZero => tl.mu_m[c] # RNaN

\* A call that met a cell holding water only, where all three sums are
\* zero and the three viscosities differ, and a cell where the mixing
\* formula applies.
C13_Witness ==
    /\ AfterEffectiveProperties
    /\ LET o == phase_pos(phase_used, Oil) + 1
           g == phase_pos(phase_used, Gas) + 1
           s == solventPos(phase_used) + 1
           sat == result.effective_saturations
           tl == result.ToddLongstaff
       IN  /\ \E c \in 1..nc :
                 /\ \A k \in MixedPositions : sat[k][c] = RZero
                 /\ tl.mu_mos[c] = result.viscosity[o][c]
                 /\ tl.mu_msg[c] = result.viscosity[g][c]
                 /\ tl.mu_m[c] = result.viscosity[s][c]
                 /\ result.viscosity[o][c] # result.viscosity[s][c]
                 /\ result.viscosity[g][c] # result.viscosity[s][c]
           /\ \E c \in 1..nc :
                 /\ RAdd(sat[o][c], sat[s][c]) # RZero
                 /\ tl.mu_m[c] # RNaN

\* The handlers that assemble the residual.
AssemblingOps == {"assemble", "addWellContributionToMassBalanceEq"}

\* C14: the constructor throws exactly when solvent and vaporized oil are
\* both enabled, so no model instance, and in particular none that runs
\* assemble or addWellContributionToMassBalanceEq, has both options; with
\* one of the two options alone the constructor returns a model.
C14_SolventWithVapoilIsRejected ==
    /\ ~(has_solvent /\ has_vapoil)
    /\ result.op \in AssemblingOps => ~(has_solvent /\ has_vapoil)
    /\ \A hs \in BOOLEAN, hv \in BOOLEAN :
          LET m == Constructor(hs, hv, is_miscible, phase_used)
          IN  /\ (hs /\ hv) => m.status = "throw"
              /\ ~(hs /\ hv) => /\ m.status = "ok"
                                /\ m.has_solvent = hs
                                /\ m.has_vapoil = hv

\* A solvent model without vaporized oil has added its well contribution.
C14_Witness ==
    /\ result.op = "addWellContributionToMassBalanceEq"
    /\ has_solvent
    /\ ~has_vapoil
    /\ Constructor(TRUE, TRUE, is_miscible, phase_used).status = "throw"
    /\ Constructor(FALSE, TRUE, is_miscible, phase_used).status = "ok"

\* The property lookups that take a phase index.
PhaseLookups == {"fluidViscosity", "fluidReciprocFVF", "fluidDensity"}

\* The phase indices that name a phase.
KnownPhases == {Water, Oil, Gas, Solvent}

\* C15: a property lookup called with an index that is none of Water, Oil,
\* Gas, Solvent raises a fatal error and returns no value, in the miscible
\* and in the immiscible mode.
C15_UnknownPhaseIsFatal ==
    (result.op \in PhaseLookups /\ result.phase \notin KnownPhases)
        => result.returned.status = "throw"

\* The two lookups that switch over the phase throw on an unknown index
\* and return a value for a known one.
SwitchingLookupsThrow ==
    result.op \in {"fluidViscosity", "fluidReciprocFVF"}
        => (result.returned.status = "throw" <=> result.phase \notin KnownPhases)

AfterWellConnectionPressures == result.op = "computeWellConnectionPressures"

\* C16: for every well and every perforation of it, the average pressure
\* is the mean of the perforation's pressure and of the pressure of the
\* perforation before it in the well; for the first perforation of a well
\* the pressure above is that well's bottom-hole pressure.
C16_AveragePressure ==
    AfterWellConnectionPressures =>
        \A w \in 1..nw :
            \A i \in (well_connpos(w - 1) + 1)..well_connpos(w) :
                LET first == i = well_connpos(w - 1) + 1
                    above == IF first THEN well_state.bhp[w] ELSE well_state.perfPress[i - 1]
                IN  /\ 2 * result.avg_press[i][1]
                         = (well_state.perfPress[i] + above) * result.avg_press[i][2]
                    /\ result.avg_press[i][2] > 0

\* The call ran on wells whose bottom-hole pressure differs from the last
\* perforation pressure of the well before, with a second well present.
C16_Witness ==
    /\ AfterWellConnectionPressures
    /\ nw >= 2
    /\ \A w \in 2..nw :
          /\ well_state.bhp[w] # well_state.perfPress[well_connpos(w - 1)]
          /\ 2 * result.avg_press[well_connpos(w - 1) + 1][1]
                = (well_state.perfPress[well_connpos(w - 1) + 1] + well_state.bhp[w])
                    * result.avg_press[well_connpos(w - 1) + 1][2]

\* The weight the blend is to use at perforation i (1-based): the solvent
\* fraction of the perforated cell for a producer, the injected solvent
\* fraction for an injector.
PerforationWeight(i) ==
    IF wells_type[WellOfPerf(i - 1)] = "PRODUCER"
    THEN CellSolventFraction(well_cells[i] + 1)
    ELSE well_state.solventFraction[i]

\* (1 - F) * gas + F * solvent
Blend(F, gas, solvent) == RAdd(RMul(RSub(ROne, F), gas), RMul(F, solvent))

\* C17, in computeWellConnectionPressures: the gas b-factor and the gas
\* surface density of each perforation are blended with the weight of that
\* perforation.
BlendInWellConnectionPressures ==
    (has_solvent /\ phase_used[Gas] /\ AfterWellConnectionPressures) =>
        \A i \in 1..nperf :
            /\ result.bg[i] = Blend(PerforationWeight(i), Fluid_bGas[i], Solvent_bSolvent[i])
            /\ result.rhog[i] = Blend(PerforationWeight(i), Fluid_surfaceDensityGas[i],
                                      Solvent_solventSurfaceDensity[i])

\* C17, in the well-flux inputs of assemble.
BlendInAssemble ==
    (has_solvent /\ result.op = "assemble") =>
        \A i \in 1..nperf :
            result.b_perfcells_gas[i]
                = Blend(PerforationWeight(i),
                        Rq_b(phase_pos(phase_used, Gas))[well_cells[i] + 1],
                        Rq_b(solventPos(phase_used))[well_cells[i] + 1])

\* C17: with solvent active, wherever the gas b-factor is blended with the
\* solvent value per perforation, in computeWellConnectionPressures and in
\* the well-flux inputs built by assemble, the blend is
\* (1 - F) * gas + F * solvent with F the cell solvent fraction at producer
\* perforations and the injected solvent fraction at injector perforations.
C17_BlendWeightByWellType ==
    /\ BlendInWellConnectionPressures
    /\ BlendInAssemble

AfterWellContribution == result.op = "addWellContributionToMassBalanceEq"

\* The solvent share of the gas-stream flux at perforation i (1-based):
\* the weight of the perforation times (gas flux - rs * oil flux).
SolventPerforationFlux(i) ==
    LET c == well_cells[i] + 1
        gas == result.cq_s[phase_pos(phase_used, Gas) + 1][i]
        oil == result.cq_s[phase_pos(phase_used, Oil) + 1][i]
    IN  RMul(PerforationWeight(i), RSub(gas, RMul(State_rs[c], oil)))

\* The sum of f(i) over the perforations 1..n that lie in cell c (1-based).
RECURSIVE SumOverPerforations(_, _, _)
SumOverPerforations(f(_), c, n) ==
    IF n = 0 THEN RZero
    ELSE RAdd(SumOverPerforations(f, c, n - 1),
              IF well_cells[n] + 1 = c THEN f(n) ELSE RZero)

\* C18: with solvent enabled, the solvent perforation flux is the weight F
\* of the perforation times (gas flux - rs * oil flux); that amount is
\* subtracted from the solvent residual and added to the gas residual of
\* the perforated cell, so the gas and solvent residuals add up to what the
\* base contribution alone gives, and the residuals of the other phases
\* and of cells without perforations are as the base contribution leaves
\* them.
C18_SolventShareOfGasFlux ==
    (has_solvent /\ AfterWellContribution) =>
        LET np == numPhases(phase_used)
            g == phase_pos(phase_used, Gas) + 1
            s == solventPos(phase_used) + 1
            PhaseFlux(k, c) ==
                LET f(i) == result.cq_s[k][i] IN SumOverPerforations(f, c, nperf)
            unsplit(k, c) ==
                IF k <= np THEN RSub(result.before[k][c], PhaseFlux(k, c))
                ELSE result.before[k][c]
        IN  \A c \in 1..nc :
                LET q == SumOverPerforations(SolventPerforationFlux, c, nperf)
                IN  /\ result.after[s][c] = RSub(unsplit(s, c), q)
                    /\ result.after[g][c] = RAdd(unsplit(g, c), q)
                    /\ RAdd(result.after[g][c], result.after[s][c])
                          = RAdd(unsplit(g, c), unsplit(s, c))
                    /\ \A k \in (1..np) \ {g} : result.after[k][c] = unsplit(k, c)
                    /\ (\A i \in 1..nperf : well_cells[i] + 1 # c)
                          => \A k \in 1..(np + 1) : result.after[k][c] = result.before[k][c]

\* The split moved a non-zero amount in a perforated cell whose producer
\* and injector perforations have different weights, next to a cell that
\* no well perforates.
C18_Witness ==
    /\ has_solvent /\ AfterWellContribution
    /\ \E c \in 1..nc :
          /\ SumOverPerforations(SolventPerforationFlux, c, nperf) # RZero
          /\ \E i \in 1..nperf, j \in 1..nperf :
                /\ well_cells[i] + 1 = c /\ well_cells[j] + 1 = c
                /\ PerforationWeight(i) # PerforationWeight(j)
    /\ \E c \in 1..nc : \A i \in 1..nperf : well_cells[i] + 1 # c

AfterRestart == result.op = "initFromRestartFile"

\* The well state a restart leaves, whatever its extras are: the restart's
\* well data when the restart step has wells.
RestoredWells ==
    IF result.restart.number_of_wells > 0 THEN result.restart.wells
    ELSE result.wellstate_before

\* C19: initFromRestartFile sets the suggested step to the single value of
\* OPMEXTRA when the field is present; when it is absent it sets the
\* suggested step to -1, logs a warning and completes, and the well state
\* is restored as in the present case.
C19_MissingExtraIsSentinel ==
    AfterRestart =>
        /\ (result.restart.extra[1] = "present" /\ Len(result.restart.extra[2]) = 1)
              => /\ result.status = "ok"
                 /\ result.extra.suggested_step = result.restart.extra[2][1]
                 /\ result.log = <<>>
                 /\ well_state = RestoredWells
        /\ result.restart.extra[1] = "absent"
              => /\ result.status = "ok"
                 /\ result.extra.suggested_step = <<-1, 1>>
                 /\ result.log = <<"warning">>
                 /\ well_state = RestoredWells

\* A restart without OPMEXTRA, read after one that had set a suggested
\* step, with wells to restore.
C19_Witness ==
    /\ AfterRestart
    /\ result.restart.extra[1] = "absent"
    /\ result.extra_before.suggested_step # <<-1, 1>>
    /\ result.extra.suggested_step = <<-1, 1>>
    /\ result.restart.number_of_wells > 0
    /\ well_state = result.restart.wells
    /\ well_state # result.wellstate_before

AfterScaling == result.op = "updateEquationsScaling"

\* The solvent scale of a single-process run on the same cells.
SingleProcessScale == updateEquationsScaling(result.b, FALSE, result.owner)

\* C20: the solvent equation scale that updateEquationsScaling sets is the
\* mean over all cells of 1 / b_solvent, and a distributed run sets the
\* value a single-process run computes for the same cells, whatever the
\* number of ranks and the partition of the cells.
C20_ScaleIndependentOfPartition ==
    AfterScaling => result.matbalscale = SingleProcessScale

\* The old-time-level data of the model: accumulation index 0 of every
\* material, and the well perforation densities and pressure differences.
OldTimeLevel ==
    [accum0 |-> [k \in 1..Len(rq_) |-> rq_[k].accum[1]],
     densities |-> well_perforation_densities_,
     pressure_diffs |-> well_perforation_pressure_diffs_]

\* C21: within one time step only the assemble call with initial_assembly =
\* true computes the old-time-level data: that call stores accumulation
\* index 0 of every phase and of the solvent and, with active wells, the
\* perforation densities and pressure differences; every later assemble
\* call of the step, and every update, leaves all of them unchanged.
C21_OldTimeLevelOnlyFromInitialAssembly ==
    [][/\ (result'.op = "assemble" /\ result'.initial_assembly)
            => /\ \A k \in 1..Len(rq_) : OldTimeLevel'.accum0[k] # <<>>
               /\ wells_active => /\ OldTimeLevel'.densities # <<>>
                                  /\ OldTimeLevel'.pressure_diffs # <<>>
       /\ ~(result'.op = "assemble" /\ result'.initial_assembly)
            => OldTimeLevel' = OldTimeLevel]_vars

\* A later assembly of a step with solvent and wells, after an update that
\* changed the solvent accumulation.
C21_Witness ==
    /\ result.op = "assemble"
    /\ ~result.initial_assembly
    /\ has_solvent
    /\ wells_active
    /\ iteration = MaxIter
    /\ rq_[solventPos(phase_used) + 1].accum[2] # rq_[solventPos(phase_used) + 1].accum[1]
    /\ rq_[1].accum[2] # rq_[1].accum[1]
    /\ well_perforation_pressure_diffs_ # <<>>

\* The position of a call in the calls of the last assembly, 0 if absent.
StepIndex(name) ==
    IF \E i \in 1..Len(result.steps) : result.steps[i] = name
    THEN CHOOSE i \in 1..Len(result.steps) : result.steps[i] = name
    ELSE 0

\* name1 and name2 were both called, name1 first.
CalledBefore(name1, name2) ==
    /\ StepIndex(name1) > 0
    /\ StepIndex(name1) < StepIndex(name2)

WellSteps ==
    <<"computeWellFlux", "updatePerfPhaseRatesAndPressures", "addWellFluxEq",
      "addWellContributionToMassBalanceEq", "addWellControlEq">>

\* The steps in the order that is stated for an assembly.
StatedOrder ==
    <<"updateWellControls", "variableState">>
    \o (IF result.initial_assembly
        THEN <<"makeConstantState", "computeAccum(state0, 0)",
               "computeWellConnectionPressures(state0)">>
        ELSE <<>>)
    \o (IF is_miscible THEN <<"calculateEffectiveProperties(state)">> ELSE <<>>)
    \o <<"assembleMassBalanceEq">>
    \o (IF wells_active THEN WellSteps ELSE <<>>)

IsStatedStep(name) == \E i \in 1..Len(StatedOrder) : StatedOrder[i] = name

\* C22: every assemble call makes the stated steps in the stated order, the
\* initial-only steps exactly in the initial assembly, the effective
\* properties exactly in miscible mode and before the accumulation and
\* mass-balance steps that read them, and the well steps exactly when
\* wells are active; without wells every equation of the residual is the
\* mass balance alone.
C22_AssembleStepOrder ==
    result.op = "assemble" =>
        /\ SelectSeq(result.steps, IsStatedStep) = StatedOrder
        /\ \A i \in 1..Len(result.steps) :
              ~IsStatedStep(result.steps[i]) =>
                  \/ /\ result.steps[i] = "calculateEffectiveProperties(state0)"
                     /\ is_miscible /\ result.initial_assembly
                  \/ /\ result.steps[i] = "solveWellEq"
                     /\ wells_active /\ result.initial_assembly
                     /\ CalledBefore("assembleMassBalanceEq", "solveWellEq")
                     /\ CalledBefore("solveWellEq", "computeWellFlux")
        /\ (is_miscible /\ result.initial_assembly)
              => CalledBefore("calculateEffectiveProperties(state0)", "computeAccum(state0, 0)")
        /\ is_miscible
              => CalledBefore("calculateEffectiveProperties(state)", "assembleMassBalanceEq")
        /\ ~wells_active
              => /\ \A i \in 1..Len(WellSteps) : StepIndex(WellSteps[i]) = 0
                 /\ \A k \in 1..Len(residual_) : residual_[k] = MassBalance(rq_[k])
                 /\ well_perforation_densities_ = <<>>

\* Initial assemblies in miscible mode, with and without wells, have run;
\* with wells the residual carries the well term.
C22_Witness ==
    /\ result.op = "assemble"
    /\ result.initial_assembly
    /\ is_miscible
    /\ wells_active
    /\ StepIndex("solveWellEq") > 0
    /\ \E k \in 1..Len(residual_) : residual_[k] # MassBalance(rq_[k])

\* The solvent fractions, denominators and selector bases that the last
\* call of ToddLongstaffModel computed from its inputs.
DensityFractions ==
    LET o == phase_pos(phase_used, Oil) + 1
        g == phase_pos(phase_used, Gas) + 1
        s == solventPos(phase_used) + 1
        sat == result.effective_saturations
    IN  ToddLongstaffModel_sfractions(
            ToddLongstaffModel_viscosity(result.viscosity[o], result.viscosity[g],
                                         result.viscosity[s], sat[o], sat[g], sat[s],
                                         result.mix_param_mu),
            sat[o], sat[g], result.mix_param_rho)

\* The linear blend of the density at position k with the fully mixed
\* density, in cell c.
LinearBlend(k, c) ==
    LET o == phase_pos(phase_used, Oil) + 1
        g == phase_pos(phase_used, Gas) + 1
        s == solventPos(phase_used) + 1
        sat == result.effective_saturations
        sn_eff == RAdd(RAdd(sat[o][c], sat[g][c]), sat[s][c])
        rho_m == RAdd(RAdd(RDiv(RMul(result.density[o][c], sat[o][c]), sn_eff),
                           RDiv(RMul(result.density[g][c], sat[g][c]), sn_eff)),
                      RDiv(RMul(result.density[s][c], sat[s][c]), sn_eff))
    IN  RAdd(RMul(RSub(ROne, result.mix_param_rho), result.density[k][c]),
             RMul(result.mix_param_rho, rho_m))

\* C23: the effective densities of oil, gas and solvent use the fractional
\* formula only in cells where its denominator is not zero, and every cell
\* where the solvent viscosity equals the oil viscosity (for oil), the gas
\* viscosity (for gas) or either (for solvent) takes the linear blend with
\* the fully mixed density.
C23_FractionalFormulaOnlyWhereDefined ==
    AfterEffectiveProperties =>
        LET o == phase_pos(phase_used, Oil) + 1
            g == phase_pos(phase_used, Gas) + 1
            s == solventPos(phase_used) + 1
            f == DensityFractions
            mu == result.viscosity
            rho == result.ToddLongstaff.density
        IN  \A c \in 1..nc :
               /\ rho[o][c] # LinearBlend(o, c) => f.denominator_oe[c] # RZero
               /\ rho[g][c] # LinearBlend(g, c) => f.denominator_ge[c] # RZero
               /\ rho[s][c] # LinearBlend(s, c) => f.denominator_se[c] # RZero
               /\ mu[s][c] = mu[o][c] => rho[o][c] = LinearBlend(o, c)
               /\ mu[s][c] = mu[g][c] => rho[g][c] = LinearBlend(g, c)
               /\ (mu[s][c] = mu[o][c] \/ mu[s][c] = mu[g][c])
                     => rho[s][c] = LinearBlend(s, c)

\* The property table behind a lookup of a phase.
TableOf(op, phase) ==
    IF op = "fluidViscosity"
    THEN CASE phase = Water -> "muWat" [] phase = Oil -> "muOil" [] phase = Gas -> "muGas"
           [] phase = Solvent -> "muSolvent"
    ELSE CASE phase = Water -> "bWat" [] phase = Oil -> "bOil" [] phase = Gas -> "bGas"
           [] phase = Solvent -> "bSolvent"

\* The stored effective vector that a lookup of a phase reads.
StoredEffective(op, phase) ==
    LET stored == IF op = "fluidViscosity" THEN mu_eff ELSE b_eff
    IN  stored[(IF phase = Solvent THEN solventPos(phase_used)
                ELSE phase_pos(phase_used, phase)) + 1]

\* C24: is_miscible never changes; with the flag false fluidViscosity and
\* fluidReciprocFVF return the value of the property table of the phase
\* (the solvent table for Solvent), with the flag true they return the
\* stored effective vector of the phase as calculateEffectiveProperties
\* last wrote it, and the stored water values are the raw table values.
C24_PropertySourceFollowsMiscibleFlag ==
    /\ [](/\ (result.op \in {"fluidViscosity", "fluidReciprocFVF"}
              /\ result.phase \in KnownPhases)
                => result.returned =
                       Returned(IF is_miscible THEN StoredEffective(result.op, result.phase)
                                ELSE TableValue(TableOf(result.op, result.phase),
                                                result.phase))
          /\ AfterEffectiveProperties
                => /\ mu_eff[phase_pos(phase_used, Water) + 1]
                          = result.viscosity[phase_pos(phase_used, Water) + 1]
                   /\ b_eff[phase_pos(phase_used, Water) + 1] = Fluid_b(Water))
    /\ [][/\ is_miscible' = is_miscible
          /\ result'.op \in {"fluidViscosity", "fluidReciprocFVF"}
                => (mu_eff' = mu_eff /\ b_eff' = b_eff)]_vars

\* A miscible model returned the stored water viscosity after the
\* effective properties were computed.
C24_Witness ==
    /\ is_miscible
    /\ result.op = "fluidViscosity"
    /\ result.phase = Water
    /\ result.returned.status = "ok"
    /\ result.returned.value = mu_eff[phase_pos(phase_used, Water) + 1]
    /\ Len(result.returned.value) = nc

AfterComputeAccum == result.op = "computeAccum"

\* The reciprocal formation volume factor of a material in the cells: the
\* table value, or the stored effective value in miscible mode.
CellB(phase) ==
    IF is_miscible THEN StoredEffective("fluidReciprocFVF", phase)
    ELSE IF phase = Solvent THEN Solvent_b ELSE Fluid_b(phase)

\* C25: computeAccum(state, timeIndex) with solvent enabled stores, in every
\* cell, solvent accumulation[timeIndex] = pore-volume multiplier * solvent
\* reciprocal FVF * solvent saturation, and accumulation[timeIndex] of
\* every active phase likewise; the accumulation of every material under
\* the other time index is left unchanged.
C25_SolventAccumulation ==
    (AfterComputeAccum /\ has_solvent) =>
        LET s == solventPos(phase_used) + 1
            this == result.aix + 1
            other == 2 - result.aix
        IN  /\ \A c \in 1..nc :
                  rq_[s].accum[this][c] =
                      RMul(RMul(result.pv_mult[c], CellB(Solvent)[c]),
                           result.solvent_saturation[c])
            /\ \A p \in {Water, Oil, Gas} : \A c \in 1..nc :
                  phase_used[p] =>
                      rq_[phase_pos(phase_used, p) + 1].accum[this][c] =
                          RMul(RMul(result.pv_mult[c], CellB(p)[c]), result.saturation[p][c])
            /\ \A k \in 1..Len(rq_) : rq_[k].accum[other] = result.before[k].accum[other]

\* A call that stored a non-zero solvent accumulation under index 1 while
\* index 0 held the accumulation of an earlier assembly.
C25_Witness ==
    /\ AfterComputeAccum
    /\ has_solvent
    /\ result.aix = 1
    /\ result.before[solventPos(phase_used) + 1].accum[1] # <<>>
    /\ \E c \in 1..nc : rq_[solventPos(phase_used) + 1].accum[2][c] # RZero
    /\ \E c \in 1..nc : rq_[solventPos(phase_used) + 1].accum[2][c] = RZero

AfterMassBalanceEq == result.op = "assembleMassBalanceEq"

\* C26: the residual has numPhases + 1 mass-balance equations with solvent
\* and numPhases without; assembleMassBalanceEq sets the last one, the
\* solvent equation, in every cell to pvdt * (solvent accumulation[1] -
\* solvent accumulation[0]) + the divergence of the solvent mass flux, and
\* leaves the equations of the base phases as the base assembly made them.
C26_SolventEquationIsLast ==
    /\ Len(residual_) = numPhases(phase_used) + (IF has_solvent THEN 1 ELSE 0)
    /\ AfterMassBalanceEq =>
          /\ \A k \in 1..numPhases(phase_used) : residual_[k] = result.base[k]
          /\ has_solvent =>
                LET s == numPhases(phase_used) + 1
                IN  \A c \in 1..nc :
                       residual_[s][c] =
                           RAdd(RMul(pvdt_[c], RSub(rq_[s].accum[2][c], rq_[s].accum[1][c])),
                                RSub(rq_[s].mflux[c],
                                     IF c = 1 THEN RZero ELSE rq_[s].mflux[c - 1]))

\* A solvent equation with a change of the solvent accumulation and a
\* solvent flux, next to base equations that are not all equal to it.
C26_Witness ==
    /\ AfterMassBalanceEq
    /\ has_solvent
    /\ LET s == numPhases(phase_used) + 1
       IN  /\ rq_[s].accum[2] # rq_[s].accum[1]
           /\ \E c \in 1..nc : rq_[s].mflux[c] # RZero
           /\ residual_[s] # residual_[1]
           /\ \E c \in 1..nc : residual_[s][c] # RZero

AfterMassFlux == result.op = "computeMassFlux"

\* C27: computeMassFlux makes exactly one base flux computation, with the
\* relative permeability, viscosity and density it was given, for every
\* phase but gas and for every phase without solvent; for gas with solvent
\* it makes exactly two, first the one of the solvent, stored under the
\* solvent index with the solvent viscosity and density, then the one of
\* the gas, their relative permeabilities both being a multiple of the
\* relative permeability that was passed in.
C27_OnlyGasFluxIsSplit ==
    AfterMassFlux =>
        LET last == result.calls[Len(result.calls)]
        IN  /\ last.idx = result.actph
            /\ last.mu = <<"mu">>
            /\ last.rho = <<"rho">>
            /\ IF has_solvent /\ canph(phase_used, result.actph) = Gas
               THEN /\ Len(result.calls) = 2
                    /\ result.calls[1].idx = numPhases(phase_used)
                    /\ result.calls[1].mu = IF is_miscible
                                            THEN <<"mu_eff_", numPhases(phase_used)>>
                                            ELSE <<"muSolvent", "phasePressure">>
                    /\ result.calls[1].rho
                          = <<"solventSurfaceDensity * rq_.b", numPhases(phase_used)>>
                    /\ \A c \in 1..nc :
                          LET F == CellSolventFraction(c)
                          IN  /\ result.calls[1].kr[c]
                                    = RMul(solventRelPermMultiplier(<<F>>)[1], result.kr[c])
                              /\ last.kr[c]
                                    = RMul(gasRelPermMultiplier(<<RSub(ROne, F)>>)[1],
                                           result.kr[c])
               ELSE /\ Len(result.calls) = 1
                    /\ last.kr = result.kr

\* Both cases have happened: here a gas flux with solvent whose two
\* relative permeabilities differ from each other and from the input.
C27_Witness ==
    /\ AfterMassFlux
    /\ has_solvent
    /\ canph(phase_used, result.actph) = Gas
    /\ Len(result.calls) = 2
    /\ result.calls[1].kr # result.kr
    /\ result.calls[2].kr # result.kr
    /\ result.calls[1].kr # result.calls[2].kr
    /\ \E c \in 1..nc : CellSolventFraction(c) \notin {RZero, ROne}

\* What the base model answers to the call that the last handler recorded.
BaseAnswers ==
    LET np == numPhases(phase_used)
    IN  CASE result.op \in {"variableState", "variableStateExtractVars"} ->
                /\ result.op = "variableState" =>
                      /\ result.indices = Base_variableStateIndices(phase_used)
                      /\ Len(result.indices) = 5
                /\ result.vars0
                      = Base_variableStateInitials(phase_used, reservoir_state, well_state)
                /\ result.state
                      = Base_variableStateExtractVars(phase_used, result.indices, result.vars0)
          [] result.op = "computeAccum" ->
                rq_ = Base_computeAccum(is_miscible, phase_used, b_eff, result.before,
                                        SolutionState, result.aix)
          [] result.op = "assembleMassBalanceEq" ->
                LET base == Base_assembleMassBalanceEq(FALSE, is_miscible, phase_used, b_eff,
                                                       rq_, residual_, SolutionState)
                IN  /\ residual_ = result.base
                    /\ residual_ = base.material_balance_eq
                    /\ rq_ = base.rq
          [] result.op = "addWellContributionToMassBalanceEq" ->
                result.after = Base_addWellContribution(result.before, result.cq_s, np)
          [] result.op = "computeMassFlux" ->
                result.calls = <<[idx |-> result.actph, kr |-> result.kr,
                                  mu |-> <<"mu">>, rho |-> <<"rho">>]>>
          [] result.op = "updateState" -> result.base_dx = result.dx
          [] OTHER -> TRUE

\* C28: a model without solvent behaves as the base model.  Its rq_ and its
\* residual have no solvent slot; variableStateInitials,
\* variableStateIndices (5 entries), variableStateExtractVars, computeAccum,
\* assembleMassBalanceEq, addWellContributionToMassBalanceEq and
\* computeMassFlux give what the base gives for the same arguments;
\* updateState hands dx unchanged to the base and leaves the states as the
\* base does; the solvent saturation of the reservoir state never changes.
C28_WithoutSolventAsBase ==
    /\ [](~has_solvent =>
             /\ Len(rq_) = numPhases(phase_used)
             /\ Len(residual_) = numPhases(phase_used)
             /\ BaseAnswers)
    /\ [][~has_solvent =>
             /\ reservoir_state'.solvent_saturation = reservoir_state.solvent_saturation
             /\ iteration' # iteration =>
                   LET base == Base_updateState(phase_used, result'.dx, reservoir_state,
                                                well_state)
                   IN  /\ result'.op = "updateState"
                       /\ reservoir_state' = base.reservoir
                       /\ well_state' = base.well]_vars

\* A model without solvent, with gas and wells, has assembled, has been
\* updated by a vector that is not zero, and has assembled its mass
\* balance equations again.
C28_Witness ==
    /\ ~has_solvent
    /\ phase_used[Gas]
    /\ wells_active
    /\ result.op = "assembleMassBalanceEq"
    /\ iteration > 0
    /\ reservoir_state # InitialReservoir(phase_used)
    /\ \E k \in 1..Len(residual_) : \E c \in 1..nc : residual_[k][c] # RZero

\* C29: the solvent fraction that computeRelPerm, the well contribution to
\* the mass balance, the well connection pressures and the b-factor blend
\* of assemble compute for a cell is the one computeMassFlux computes for
\* that cell on the same solution state, also where ss + sg = 0.
C29_OneSolventFractionPerCell ==
    (has_solvent /\ result.op \in SolventFractionSites) =>
        \A i \in 1..Len(result.F_solvent) :
            result.F_solvent[i]
                = F_solvent_computeMassFlux(phase_used, SolutionState)[result.F_cells[i] + 1]

\* The blend of assemble has computed the fraction at perforations of a
\* cell without gas and solvent and of a cell that holds solvent.
C29_Witness ==
    /\ has_solvent /\ result.op = "assemble"
    /\ \E i \in 1..Len(result.F_solvent) :
          /\ reservoir_state.solvent_saturation[result.F_cells[i] + 1] = 0
          /\ SatOf(reservoir_state, Gas, result.F_cells[i] + 1) = 0
    /\ \E i \in 1..Len(result.F_solvent) : result.F_solvent[i] \notin {RZero, RNaN}

\* The loop of run makes one solver step and then one timer advance for
\* every step of the timer, in step order.
RunLoopInOrder ==
    sim.pc # "idle" =>
        /\ sim.advances = sim.current_step
        /\ sim.solver_steps
              = StepNumbers(sim.current_step
                            + (IF sim.pc \in {"report", "advance"} THEN 1 ELSE 0))
        /\ sim.pc = "returned" => sim.current_step = sim.num_steps

\* run returns for every timer.
RunReturns == <>(sim.pc = "returned")

\* C30: when run has returned it has made exactly one solver step and one
\* timer advance for every step of the timer, in step order, and with
\* output enabled the step-timing file holds the report of every step.
C30_RunLoopStepsAndReports ==
    /\ RunLoopInOrder
    /\ sim.pc = "returned" =>
          /\ sim.solver_steps = StepNumbers(sim.num_steps)
          /\ sim.advances = sim.num_steps
          /\ sim.output_ => sim.step_timing = StepNumbers(sim.num_steps)
====
